---- MODULE Spec2Model ----
(***************************************************************************)
(* Cafe management front-end: the guest menu page (src/app/menu/page.tsx)  *)
(* with its cart, its order submission flow and the call-state hook        *)
(* (src/hooks/use-api.ts) it is built on.                                  *)
(*                                                                         *)
(* One action is one event-loop task: a UI event handler run up to its     *)
(* first await, or the continuation that runs when a response arrives, or  *)
(* a timer callback.  React state is the set of variables; a handler sees  *)
(* the state of the render it was created in, which is the current state   *)
(* when the event fires.                                                   *)
(***************************************************************************)
EXTENDS Integers, Sequences, FiniteSets, TLC

\* ------------------------------------------------------------------ bounds
MaxQty == 2          \* largest quantity a cart line is driven to
MaxCheckouts == 2    \* order submissions whose navigation is still to come
MaxLoads == 1        \* product list requests outstanding at once

\* --------------------------------------------------------- program values
SuccessDelay == 1000
CatchDelay == 2000

NoTable == <<>>      \* selectedTable === null
Null == "null"       \* the null sentinel of executeApiCall / error state
EmptyBody == ""      \* a falsy response body
OrderObj == "order"  \* a created Order object

\* Products the server serves: A ($3.50) and B ($5.00), prices in cents.
ProductA == [id |-> 1, price |-> 350, category |-> "coffee"]
ProductB == [id |-> 2, price |-> 500, category |-> "pastry"]
Catalogue == <<ProductA, ProductB>>
Products == {Catalogue[i] : i \in 1..Len(Catalogue)}
ProductIds == {p.id : p \in Products}

\* The tab values of the menu (TabsTrigger values).
TabValues == {"all", "coffee"}

\* Text is a sequence of characters; " " is white space.
NameInputs == {<<>>, <<" ">>, <<" ", "a">>}
TableParams == {<<>>, <<"5">>}

\* ---------------------------------------------------------- pure helpers
RECURSIVE TrimStart(_)
TrimStart(s) ==
  IF s # <<>> /\ Head(s) = " " THEN TrimStart(Tail(s)) ELSE s

RECURSIVE TrimEnd(_)
TrimEnd(s) ==
  IF s # <<>> /\ s[Len(s)] = " " THEN TrimEnd(SubSeq(s, 1, Len(s) - 1)) ELSE s

\* String.prototype.trim
Trim(s) == TrimEnd(TrimStart(s))

\* JavaScript truthiness of a text value (the empty string is falsy; null is
\* modelled by the empty text where a text variable may be null)
TruthyText(s) == s # <<>>

\* JavaScript truthiness of a call result
Truthy(v) == v # Null /\ v # EmptyBody

Digits == <<"0", "1", "2", "3", "4", "5", "6", "7", "8", "9">>
DigitVal(c) == (CHOOSE i \in 1..10 : Digits[i] = c) - 1
IsDigit(c) == \E i \in 1..10 : Digits[i] = c

RECURSIVE ParseDigits(_, _)
ParseDigits(s, acc) ==
  IF s = <<>> \/ ~IsDigit(Head(s)) THEN acc
  ELSE ParseDigits(Tail(s), acc * 10 + DigitVal(Head(s)))

\* Number.parseInt on an unsigned decimal string; -1 stands for NaN
ParseInt(s) ==
  IF s = <<>> \/ ~IsDigit(Head(s)) THEN -1 ELSE ParseDigits(s, 0)

\* prevCart.filter((item) => item.id !== productId)
RECURSIVE FilterOtherIds(_, _)
FilterOtherIds(c, productId) ==
  IF c = <<>> THEN <<>>
  ELSE IF Head(c).id # productId
       THEN <<Head(c)>> \o FilterOtherIds(Tail(c), productId)
       ELSE FilterOtherIds(Tail(c), productId)

\* ------------------------------------------------------------------- cart
\* prevCart.find((item) => item.id === id) !== undefined
HasLine(c, id) == \E i \in 1..Len(c) : c[i].id = id

\* prevCart.find(...): the first line with that id
FindLine(c, id) == c[CHOOSE i \in 1..Len(c) :
                       c[i].id = id /\ \A j \in 1..(i - 1) : c[j].id # id]

addToCartAlwaysAppends(prevCart, product) ==
  Append(prevCart, [id |-> product.id, price |-> product.price,
                    category |-> product.category, quantity |-> 1])

addToCart(prevCart, product) ==
  IF HasLine(prevCart, product.id)
  THEN [i \in 1..Len(prevCart) |->
          IF prevCart[i].id = product.id
          THEN [prevCart[i] EXCEPT !.quantity = @ + 1]
          ELSE prevCart[i]]
  ELSE Append(prevCart, [id |-> product.id, price |-> product.price,
                         category |-> product.category, quantity |-> 1])

removeFromCartKeepsZero(prevCart, productId) ==
  [i \in 1..Len(prevCart) |->
     IF prevCart[i].id = productId
     THEN [prevCart[i] EXCEPT !.quantity = @ - 1]
     ELSE prevCart[i]]

removeFromCartDeletesLine(prevCart, productId) ==
  FilterOtherIds(prevCart, productId)

removeFromCart(prevCart, productId) ==
  IF HasLine(prevCart, productId) /\ FindLine(prevCart, productId).quantity > 1
  THEN [i \in 1..Len(prevCart) |->
          IF prevCart[i].id = productId
          THEN [prevCart[i] EXCEPT !.quantity = @ - 1]
          ELSE prevCart[i]]
  ELSE FilterOtherIds(prevCart, productId)

\* cart.reduce((total, item) => total + f(item), 0), left to right
RECURSIVE ReduceItems(_, _)
ReduceItems(c, total) ==
  IF c = <<>> THEN total
  ELSE ReduceItems(Tail(c), total + Head(c).quantity)

RECURSIVE ReducePrice(_, _)
ReducePrice(c, total) ==
  IF c = <<>> THEN total
  ELSE ReducePrice(Tail(c), total + Head(c).price * Head(c).quantity)

getTotalItems(c) == ReduceItems(c, 0)

getTotalPriceIgnoresQuantity(c) ==
  LET RECURSIVE R(_, _)
      R(s, total) == IF s = <<>> THEN total ELSE R(Tail(s), total + Head(s).price)
  IN R(c, 0)

getTotalPrice(c) == ReducePrice(c, 0)

OrderItemsUnitQuantity(c) ==
  [i \in 1..Len(c) |-> [productId |-> c[i].id, quantity |-> 1]]

\* cart.map((item) => ({ productId: item.id, quantity: item.quantity }))
OrderItems(c) ==
  [i \in 1..Len(c) |-> [productId |-> c[i].id, quantity |-> c[i].quantity]]

\* ------------------------------------------------------------------ state
VARIABLES
  location,          \* the route shown; the menu page is mounted at MenuRoute
  selectedTable,     \* useState<string | null>, NoTable for null
  products,          \* useState<Product[]>
  cart,              \* useState<CartItem[]>
  isCartOpen,        \* useState(false)
  categoryLoading,   \* useState(false)
  isPlacingOrder,    \* useState(false)
  cartCustomerName,  \* useState("")
  isLoading,         \* useApi: useState(false)
  error,             \* useApi: useState(null)
  activeTab,         \* value of the uncontrolled Tabs (defaultValue "all")
  calls,             \* executeApiCall invocations whose promise is pending
  timers,            \* pending setTimeout callbacks
  toasts,            \* titles of the toasts the last task produced
  lastOp,            \* the task that ran last
  \* OrdersPage (src/app/dashboard/orders/page.tsx)
  orders,            \* useState<Order[]>([])
  selectedOrder,     \* useState<Order | null>(null): <<>> for null, <<order>>
  isOrderDetailsOpen,\* useState(false)
  currentStatus,     \* useState<string>("all")
  statusLoading,     \* useState<boolean>(false)
  server,            \* the orders as the remote API holds them
  issued,            \* number of calls the handlers of OrdersPage have started
  \* token cache, route guard and HTTP client (lib/api, auth-guard.tsx)
  token,             \* localStorage["auth_token"], Null when absent
  isChecking,        \* AuthGuard: useState(true)
  checked,           \* the route the guard's effect last ran for, <<>> for none
  user,              \* useAuth of the dashboard's UserProfile: useState<User | null>(null)
  authLoading,       \* useAuth of the dashboard's UserProfile: isLoading, useState(true)
  navigations,       \* navigations issued and not yet carried out
  requests           \* HTTP requests sent and not yet answered

\* currentCategory (useState("all")) is written by loadProductsByCategory and
\* read by nothing; it is left out of the state.

menuVars == <<selectedTable, products, cart, isCartOpen, categoryLoading,
              isPlacingOrder, cartCustomerName, isLoading, error, activeTab>>
ordersVars == <<orders, selectedOrder, isOrderDetailsOpen, currentStatus,
                statusLoading, server, issued>>
authVars == <<token, isChecking, checked, user, authLoading, navigations, requests>>

\* the state of the pages and services other than the menu page
otherVars == <<ordersVars, authVars>>

\* the state that only the menu page has
menuOnlyVars == <<selectedTable, cart, isCartOpen, categoryLoading,
                  isPlacingOrder, cartCustomerName, activeTab, timers>>

vars == <<location, menuVars, calls, timers, toasts, lastOp, otherVars>>

MenuRoute == [path |-> "/menu", table |-> NoTable]
HomeRoute == [path |-> "/", table |-> NoTable]
TableOrdersRoute(table) == [path |-> "/table-orders/", table |-> table]

mounted == location = MenuRoute

Op(op, id, res) == [op |-> op, id |-> id, res |-> res]

Call(kind, category, table, name, items) ==
  [kind |-> kind, category |-> category, table |-> table, name |-> name,
   tableId |-> ParseInt(table), guestName |-> Trim(name), items |-> items]

RemoveAt(s, i) == SubSeq(s, 1, i - 1) \o SubSeq(s, i + 1, Len(s))

\* the outstanding order-creation calls, oldest first
RECURSIVE OfKind(_, _)
OfKind(cs, kind) ==
  IF cs = <<>> THEN <<>>
  ELSE IF Head(cs).kind = kind THEN <<Head(cs)>> \o OfKind(Tail(cs), kind)
       ELSE OfKind(Tail(cs), kind)

CreateCalls == OfKind(calls, "create")

\* ----------------------------------------------------------------- render
\* {isLoading && !categoryLoading ? "Loading menu..." : <Tabs ...>}
TabsRendered(loading, catLoading) == ~(loading /\ ~catLoading)

\* The Tabs component is uncontrolled: it starts at "all" whenever it is
\* rendered anew.
TabAfter(tab, loading, catLoading) ==
  IF TabsRendered(loading, catLoading) THEN tab ELSE "all"

\* A product card with its "Add to Order" button is on screen.
CardsVisible ==
  /\ TabsRendered(isLoading, categoryLoading)
  /\ products # <<>>
  /\ (activeTab = "all" \/ ~categoryLoading)

PlaceOrderDisabledIgnoresPlacing ==
  \/ Len(cart) = 0
  \/ ~TruthyText(selectedTable)
  \/ ~TruthyText(Trim(cartCustomerName))

\* disabled={cart.length === 0 || !selectedTable || isPlacingOrder ||
\*           !cartCustomerName.trim()}
PlaceOrderDisabled ==
  \/ Len(cart) = 0
  \/ ~TruthyText(selectedTable)
  \/ isPlacingOrder
  \/ ~TruthyText(Trim(cartCustomerName))

\* ------------------------------------------------------------------- Init
\* OrdersPage is not mounted: its state is the one its useState calls give.
OrdersIdle ==
  /\ orders = <<>>
  /\ selectedOrder = <<>>
  /\ isOrderDetailsOpen = FALSE
  /\ currentStatus = "all"
  /\ statusLoading = FALSE
  /\ server = <<>>
  /\ issued = 0

\* No token is stored, no guard is mounted and the HTTP client is idle.
AuthIdle ==
  /\ token = Null
  /\ isChecking = TRUE
  /\ checked = <<>>
  /\ user = Null
  /\ authLoading = TRUE
  /\ navigations = <<>>
  /\ requests = <<>>

\* The state after the first render and its mount effects: the table is
\* taken from the URL and loadProducts() has been started.
Init ==
  /\ location = MenuRoute
  /\ \E tableParam \in TableParams :
       selectedTable = IF TruthyText(tableParam) THEN tableParam ELSE NoTable
  /\ products = <<>>
  /\ cart = <<>>
  /\ isCartOpen = FALSE
  /\ categoryLoading = FALSE
  /\ isPlacingOrder = FALSE
  /\ cartCustomerName = <<>>
  /\ isLoading = TRUE
  /\ error = Null
  /\ activeTab = "all"
  /\ calls = <<Call("getAll", "all", NoTable, <<>>, <<>>)>>
  /\ timers = <<>>
  /\ toasts = {}
  /\ lastOp = Op("mount", 0, "")
  /\ OrdersIdle
  /\ AuthIdle

\* ------------------------------------------------------- call-state hook
Rejected == "rejected"
Responses == {OrderObj, EmptyBody, Rejected}
ErrorMessage == "error message"

executeApiCallDropsError(response) ==
  IF response # Rejected
  THEN [threw |-> FALSE, result |-> response, error |-> Null]
  ELSE [threw |-> FALSE, result |-> Null, error |-> Null]

\* executeApiCall, from the settling of apiCall() on: the value its promise
\* resolves to and the error it stores; its promise never rejects.
executeApiCall(response) ==
  IF response # Rejected
  THEN [threw |-> FALSE, result |-> response, error |-> Null]
  ELSE [threw |-> FALSE, result |-> Null, error |-> ErrorMessage]

\* useEffect(() => { if (error) toast({ title: "Error", ... }) }, [error])
ErrorEffect(oldError, newError) ==
  IF newError # oldError /\ Truthy(newError) THEN {"Error"} ELSE {}

\* What the server sends for a product list request.
RECURSIVE ByCategory(_, _)
ByCategory(list, category) ==
  IF list = <<>> THEN <<>>
  ELSE IF Head(list).category = category
       THEN <<Head(list)>> \o ByCategory(Tail(list), category)
       ELSE ByCategory(Tail(list), category)

ServerList(call) ==
  IF call.kind = "getAll" THEN Catalogue ELSE ByCategory(Catalogue, call.category)

\* --------------------------------------------------------- cart handlers
CanGrow(id) == \A i \in 1..Len(cart) : cart[i].id = id => cart[i].quantity < MaxQty

\* <MenuProductCard onAddToCart={() => addToCart(product)} />
AddFromCard(p) ==
  /\ mounted
  /\ UNCHANGED otherVars
  /\ CardsVisible
  /\ \E i \in 1..Len(products) : products[i] = p
  /\ CanGrow(p.id)
  /\ cart' = addToCart(cart, p)
  /\ toasts' = {}
  /\ lastOp' = Op("add", p.id, "")
  /\ UNCHANGED <<location, selectedTable, products, isCartOpen, categoryLoading,
                 isPlacingOrder, cartCustomerName, isLoading,
                 error, activeTab, calls, timers>>

\* the "+" button of a cart line: onClick={() => addToCart(item)}
CartPlus(i) ==
  /\ mounted
  /\ UNCHANGED otherVars
  /\ isCartOpen
  /\ i \in 1..Len(cart)
  /\ ~isPlacingOrder
  /\ CanGrow(cart[i].id)
  /\ cart' = addToCart(cart, cart[i])
  /\ toasts' = {}
  /\ lastOp' = Op("add", cart[i].id, "")
  /\ UNCHANGED <<location, selectedTable, products, isCartOpen, categoryLoading,
                 isPlacingOrder, cartCustomerName, isLoading,
                 error, activeTab, calls, timers>>

\* the "-" button of a cart line: onClick={() => removeFromCart(item.id)}
CartMinus(i) ==
  /\ mounted
  /\ UNCHANGED otherVars
  /\ isCartOpen
  /\ i \in 1..Len(cart)
  /\ ~isPlacingOrder
  /\ cart' = removeFromCart(cart, cart[i].id)
  /\ toasts' = {}
  /\ lastOp' = Op("remove", cart[i].id, "")
  /\ UNCHANGED <<location, selectedTable, products, isCartOpen, categoryLoading,
                 isPlacingOrder, cartCustomerName, isLoading,
                 error, activeTab, calls, timers>>

\* the cart button of the header: onClick={() => setIsCartOpen(true)}
OpenCart ==
  /\ mounted
  /\ UNCHANGED otherVars
  /\ ~isCartOpen
  /\ isCartOpen' = TRUE
  /\ toasts' = {}
  /\ lastOp' = Op("openCart", 0, "")
  /\ UNCHANGED <<location, selectedTable, products, cart, categoryLoading,
                 isPlacingOrder, cartCustomerName, isLoading,
                 error, activeTab, calls, timers>>

\* <Dialog open={isCartOpen} onOpenChange={setIsCartOpen}>, dismissed
CloseCart ==
  /\ mounted
  /\ UNCHANGED otherVars
  /\ isCartOpen
  /\ isCartOpen' = FALSE
  /\ toasts' = {}
  /\ lastOp' = Op("closeCart", 0, "")
  /\ UNCHANGED <<location, selectedTable, products, cart, categoryLoading,
                 isPlacingOrder, cartCustomerName, isLoading,
                 error, activeTab, calls, timers>>

\* <Input value={cartCustomerName} onChange={... setCartCustomerName ...} />,
\* rendered when the cart has a line
SetName(n) ==
  /\ mounted
  /\ UNCHANGED otherVars
  /\ isCartOpen
  /\ Len(cart) > 0
  /\ n # cartCustomerName
  /\ cartCustomerName' = n
  /\ toasts' = {}
  /\ lastOp' = Op("setName", 0, "")
  /\ UNCHANGED <<location, selectedTable, products, cart, isCartOpen,
                 categoryLoading, isPlacingOrder, isLoading,
                 error, activeTab, calls, timers>>

\* ---------------------------------------------------------- product load
\* handleTabChange -> loadProductsByCategory(category)
handleTabChange(value) ==
  /\ mounted
  /\ UNCHANGED otherVars
  /\ TabsRendered(isLoading, categoryLoading)
  /\ Len(calls) - Len(CreateCalls) < MaxLoads
  /\ categoryLoading' = IF value = "all" THEN categoryLoading ELSE TRUE
  /\ isLoading' = TRUE
  /\ error' = Null
  /\ activeTab' = TabAfter(value, isLoading', categoryLoading')
  /\ calls' = Append(calls,
                Call(IF value = "all" THEN "getAll" ELSE "getByCategory",
                     value, NoTable, <<>>, <<>>))
  /\ toasts' = {}
  /\ lastOp' = Op("tab", 0, "")
  /\ UNCHANGED <<location, selectedTable, products, cart, isCartOpen,
                 isPlacingOrder, cartCustomerName, timers>>

\* ------------------------------------------------------ order submission
CheckoutValidationSkipsName(table, c, name) ==
  IF ~TruthyText(table) \/ Len(c) = 0 THEN "Cannot place order" ELSE "ok"

\* The two early returns of handleCheckout; "ok" when both are passed.
CheckoutValidation(table, c, name) ==
  IF ~TruthyText(table) \/ Len(c) = 0 THEN "Cannot place order"
  ELSE IF ~TruthyText(Trim(name)) THEN "Name Required"
  ELSE "ok"

\* handleCheckout up to its await: validation, setIsPlacingOrder(true) and
\* the executeApiCall(() => api.orders.create(...)) it starts.
handleCheckout ==
  /\ mounted
  /\ UNCHANGED otherVars
  /\ LET v == CheckoutValidation(selectedTable, cart, cartCustomerName)
     IN IF v # "ok"
        THEN /\ toasts' = {v}
             /\ lastOp' = Op("checkout", 0, v)
             /\ UNCHANGED <<location, menuVars, calls, timers>>
        ELSE /\ Len(CreateCalls) + Len(timers) < MaxCheckouts
             /\ isPlacingOrder' = TRUE
             /\ isLoading' = TRUE
             /\ error' = Null
             /\ activeTab' = TabAfter(activeTab, isLoading', categoryLoading)
             /\ calls' = Append(calls, Call("create", "", selectedTable,
                                            cartCustomerName, OrderItems(cart)))
             /\ toasts' = {}
             /\ lastOp' = Op("checkout", 0, "accepted")
             /\ UNCHANGED <<location, selectedTable, products, cart, isCartOpen,
                            categoryLoading, cartCustomerName,
                            timers>>

\* <Button onClick={handleCheckout} disabled={...}>Place Order</Button>
ClickPlaceOrder ==
  /\ isCartOpen
  /\ ~PlaceOrderDisabled
  /\ handleCheckout

CheckoutSettledKeepsCartOnFailure(ret, call) ==
  [cart |-> IF Truthy(ret.result) THEN <<>> ELSE OrderItems(<<>>) \o
              [i \in 1..Len(call.items) |->
                 [id |-> call.items[i].productId, price |-> 0, category |-> "",
                  quantity |-> call.items[i].quantity]],
   name |-> <<>>, open |-> FALSE,
   toast |-> IF Truthy(ret.result) THEN "Order Placed Successfully!"
             ELSE "Order Submitted",
   dest |-> TableOrdersRoute(call.table), delay |-> SuccessDelay,
   placing |-> FALSE]

CheckoutSettledKeepsName(ret, call) ==
  [cart |-> <<>>, name |-> call.name, open |-> FALSE,
   toast |-> IF Truthy(ret.result) THEN "Order Placed Successfully!"
             ELSE "Order Submitted",
   dest |-> TableOrdersRoute(call.table), delay |-> SuccessDelay,
   placing |-> FALSE]

\* handleCheckout after its await: the try block from "Order result" on, the
\* catch block when the awaited call threw; the finally block follows both.
CheckoutSettled(ret, call) ==
  IF ret.threw
  THEN [cart |-> <<>>, name |-> <<>>, open |-> FALSE,
        toast |-> "Order Submission Error",
        dest |-> TableOrdersRoute(call.table), delay |-> CatchDelay,
        placing |-> FALSE]
  ELSE [cart |-> <<>>, name |-> <<>>, open |-> FALSE,
        toast |-> IF Truthy(ret.result) THEN "Order Placed Successfully!"
                  ELSE "Order Submitted",
        dest |-> TableOrdersRoute(call.table), delay |-> SuccessDelay,
        placing |-> FALSE]

\* The response of an outstanding call arrives: executeApiCall finishes and
\* the handler that awaited it runs to its end.  State updates of a page that
\* is no longer mounted are dropped; toasts and timers are not.
Settle(i, response) ==
  /\ i \in 1..Len(calls)
  /\ UNCHANGED otherVars
  /\ LET call == calls[i]
         ret == executeApiCall(response)
         done == CheckoutSettled(ret, call)
         newError == IF ret.error # Null THEN ret.error ELSE error
     IN /\ calls' = RemoveAt(calls, i)
        /\ lastOp' = Op(IF call.kind = "create" THEN "settleCreate" ELSE "settleLoad",
                         0, response)
        /\ IF mounted
           THEN /\ isLoading' = FALSE
                /\ error' = newError
                /\ categoryLoading' =
                     IF call.kind = "getByCategory" THEN FALSE ELSE categoryLoading
                /\ activeTab' = TabAfter(activeTab, isLoading', categoryLoading')
                /\ products' =
                     IF call.kind # "create" /\ Truthy(ret.result)
                     THEN ServerList(call) ELSE products
                /\ cart' = IF call.kind = "create" THEN done.cart ELSE cart
                /\ cartCustomerName' =
                     IF call.kind = "create" THEN done.name ELSE cartCustomerName
                /\ isCartOpen' = IF call.kind = "create" THEN done.open ELSE isCartOpen
                /\ isPlacingOrder' =
                     IF call.kind = "create" THEN done.placing ELSE isPlacingOrder
                /\ toasts' = (IF call.kind = "create" THEN {done.toast} ELSE {})
                               \cup ErrorEffect(error, newError)
                /\ UNCHANGED selectedTable
           ELSE /\ toasts' = IF call.kind = "create" THEN {done.toast} ELSE {}
                /\ UNCHANGED menuVars
        /\ timers' = IF call.kind = "create"
                     THEN Append(timers, [dest |-> done.dest, delay |-> done.delay])
                     ELSE timers
  /\ UNCHANGED <<location>>

\* Leaving the route unmounts MenuPage: its component state is discarded.
Unmounted ==
  /\ selectedTable' = NoTable
  /\ products' = <<>>
  /\ cart' = <<>>
  /\ isCartOpen' = FALSE
  /\ categoryLoading' = FALSE
  /\ isPlacingOrder' = FALSE
  /\ cartCustomerName' = <<>>
  /\ isLoading' = FALSE
  /\ error' = Null
  /\ activeTab' = "all"

\* setTimeout(() => { router.push(`/table-orders/${selectedTable}`) }, delay)
NavFire(i) ==
  /\ i \in 1..Len(timers)
  /\ UNCHANGED otherVars
  /\ location' = timers[i].dest
  /\ timers' = RemoveAt(timers, i)
  /\ toasts' = {}
  /\ lastOp' = Op("navigate", 0, "")
  /\ Unmounted
  /\ UNCHANGED calls

\* the back button, rendered when a table is selected
goBackToTable ==
  /\ mounted
  /\ UNCHANGED otherVars
  /\ TruthyText(selectedTable)
  /\ location' = IF TruthyText(selectedTable)
                 THEN TableOrdersRoute(selectedTable) ELSE HomeRoute
  /\ toasts' = {}
  /\ lastOp' = Op("navigate", 0, "")
  /\ Unmounted
  /\ UNCHANGED <<calls, timers>>

\* ------------------------------------------------------- specifications
\* The page as the guest drives it: handleCheckout runs only from the Place
\* Order button.
Next ==
  \/ \E p \in Products : AddFromCard(p)
  \/ \E i \in 1..Len(cart) : CartPlus(i)
  \/ \E i \in 1..Len(cart) : CartMinus(i)
  \/ OpenCart
  \/ CloseCart
  \/ \E n \in NameInputs : SetName(n)
  \/ \E value \in TabValues : handleTabChange(value)
  \/ ClickPlaceOrder
  \/ \E i \in 1..Len(calls) : \E response \in Responses : Settle(i, response)
  \/ \E i \in 1..Len(timers) : NavFire(i)
  \/ goBackToTable

Spec == Init /\ [][Next]_vars

\* The cart and submission handlers on their own: handleCheckout is invoked in
\* any state of the mounted page, as a caller other than the button would; the
\* menu stays on the tab it was loaded with.
HandlerNext ==
  \/ \E p \in Products : AddFromCard(p)
  \/ \E i \in 1..Len(cart) : CartPlus(i)
  \/ \E i \in 1..Len(cart) : CartMinus(i)
  \/ OpenCart
  \/ CloseCart
  \/ \E n \in NameInputs : SetName(n)
  \/ handleCheckout
  \/ \E i \in 1..Len(calls) : \E response \in Responses : Settle(i, response)
  \/ \E i \in 1..Len(timers) : NavFire(i)
  \/ goBackToTable

HandlerSpec == Init /\ [][HandlerNext]_vars

\* ------------------------------------------- the call-state hook alone
\* One useApi instance used by a component that calls executeApiCall whenever
\* it likes, also while an earlier call is pending.
MaxHookCalls == 3

\* the apiCall functions the component passes: the three loads OrdersPage
\* starts when it mounts
HookApiCalls == {"orders.getAll", "tables.getAll", "products.getAll"}

\* what apiCall() may settle with: its own value (the list it asked for, which
\* may be empty or null) or a rejection
HookResponses(apiCall) == {apiCall, EmptyBody, Null, Rejected}

\* The menu page is not mounted.
MenuIdle ==
  /\ selectedTable = NoTable
  /\ products = <<>>
  /\ cart = <<>>
  /\ isCartOpen = FALSE
  /\ categoryLoading = FALSE
  /\ isPlacingOrder = FALSE
  /\ cartCustomerName = <<>>
  /\ activeTab = "all"
  /\ timers = <<>>

HookOp(op, call, response, ret) ==
  [op |-> op, kind |-> call.kind, alone |-> call.alone, response |-> response,
   res |-> ret.result, threw |-> ret.threw]

NoCall == [kind |-> "", alone |-> TRUE]
NoReturn == [result |-> Null, threw |-> FALSE]

HookInit ==
  /\ location = HomeRoute
  /\ MenuIdle
  /\ isLoading = FALSE
  /\ error = Null
  /\ calls = <<>>
  /\ toasts = {}
  /\ lastOp = HookOp("mount", NoCall, Null, NoReturn)
  /\ OrdersIdle
  /\ AuthIdle

\* executeApiCall up to its await: setIsLoading(true); setError(null); apiCall()
\* is started.  A call is alone while no other call of the instance is pending
\* at any time between its start and its settling.
HookStart(apiCall) ==
  /\ Len(calls) < MaxHookCalls
  /\ isLoading' = TRUE
  /\ error' = Null
  /\ calls' = Append([i \in 1..Len(calls) |-> [calls[i] EXCEPT !.alone = FALSE]],
                     [kind |-> apiCall, alone |-> calls = <<>>])
  /\ lastOp' = HookOp("start", calls'[Len(calls')], Null, NoReturn)
  /\ UNCHANGED <<location, products, menuOnlyVars, toasts, otherVars>>

\* apiCall() settles: the try / catch / finally of executeApiCall run and its
\* promise resolves.
HookSettle(i, response) ==
  /\ i \in 1..Len(calls)
  /\ response \in HookResponses(calls[i].kind)
  /\ LET ret == executeApiCall(response)
     IN /\ isLoading' = FALSE
        /\ error' = IF ret.error # Null THEN ret.error ELSE error
        /\ lastOp' = HookOp("return", calls[i], response, ret)
  /\ calls' = RemoveAt(calls, i)
  /\ UNCHANGED <<location, products, menuOnlyVars, toasts, otherVars>>

\* clearError: setError(null)
clearError ==
  /\ error # Null
  /\ error' = Null
  /\ lastOp' = HookOp("clearError", NoCall, Null, NoReturn)
  /\ UNCHANGED <<location, products, menuOnlyVars, isLoading, calls, toasts, otherVars>>

HookNext ==
  \/ \E apiCall \in HookApiCalls : HookStart(apiCall)
  \/ \E i \in 1..Len(calls) :
       \E response \in HookResponses(calls[i].kind) : HookSettle(i, response)
  \/ clearError

HookSpec == HookInit /\ [][HookNext]_vars

\* ------------------------------------------------------------ orders page
\* OrdersPage of src/app/dashboard/orders/page.tsx with the remote API behind
\* it.  A request is sent, handled by the server at some later moment, and its
\* response delivered at some moment after that; requests and responses of
\* different calls overtake each other freely.
MaxOrderCalls == 3     \* calls of the page outstanding at once
MaxIssued == 2         \* calls the handlers start after the page has mounted
MaxItems == 2          \* lines of an order

\* new < preparing < ready < delivered < paid
StatusOrder == <<"new", "preparing", "ready", "delivered", "paid">>

\* The orders the server holds when the page is opened; an order's items are
\* the quantities of its lines, all of product A.
ServerInit ==
  <<[id |-> 1, status |-> "new", items |-> <<1>>],
    [id |-> 2, status |-> "delivered", items |-> <<1>>]>>

\* the tabs of the page that are used (TabsTrigger values)
OrdersTabs == {"all", "new"}

OrdersRoute == [path |-> "/dashboard/orders", table |-> NoTable]

\* Order.total as the server computes it
RECURSIVE ServerTotal(_)
ServerTotal(items) ==
  IF items = <<>> THEN 0 ELSE ProductA.price * Head(items) + ServerTotal(Tail(items))

\* the Order object the server sends for an order it holds
Snapshot(o) ==
  [id |-> o.id, status |-> o.status, items |-> o.items,
   total |-> ServerTotal(o.items)]

\* GET /orders and GET /orders/status/{status}
RECURSIVE ServerOrders(_, _)
ServerOrders(held, status) ==
  IF held = <<>> THEN <<>>
  ELSE (IF Head(held).status # "deleted" /\ (status = "all" \/ Head(held).status = status)
        THEN <<Snapshot(Head(held))>> ELSE <<>>) \o ServerOrders(Tail(held), status)

\* a call of the page: what it asks for, the state its handler captured when
\* it was invoked (the render's orders, selectedOrder and currentStatus), and
\* the response once the server has produced one
OrdersCall(kind, id, arg, captured) ==
  [kind |-> kind, id |-> id, arg |-> arg,
   orders |-> IF captured THEN orders ELSE <<>>,
   selectedOrder |-> IF captured THEN selectedOrder ELSE <<>>,
   currentStatus |-> IF captured THEN currentStatus ELSE "all",
   item |-> 0, quantity |-> 0,
   answered |-> FALSE, ok |-> FALSE, body |-> <<>>]

OrdersInit ==
  /\ location = OrdersRoute
  /\ MenuIdle
  /\ AuthIdle
  /\ orders = <<>>
  /\ selectedOrder = <<>>
  /\ isOrderDetailsOpen = FALSE
  /\ currentStatus = "all"
  /\ statusLoading = FALSE
  /\ server = ServerInit
  /\ issued = 0
  /\ isLoading = TRUE
  /\ error = Null
  /\ calls = <<OrdersCall("loadOrders", 0, "all", FALSE),
               OrdersCall("loadTables", 0, "", FALSE),
               OrdersCall("loadProducts", 0, "", FALSE)>>
  /\ toasts = {}
  /\ lastOp = Op("mount", 0, "")

\* orders.map((order) => (order.id === orderId ? result : order))
MapOrder(list, orderId, result) ==
  [k \in 1..Len(list) |-> IF list[k].id = orderId THEN result ELSE list[k]]

\* orders.filter((order) => order.id !== orderId)
RECURSIVE FilterOrder(_, _)
FilterOrder(list, orderId) ==
  IF list = <<>> THEN <<>>
  ELSE (IF Head(list).id # orderId THEN <<Head(list)>> ELSE <<>>)
         \o FilterOrder(Tail(list), orderId)

\* getNextStatus of order-details.tsx; Null for its null
getNextStatus(status) ==
  CASE status = "new" -> "preparing"
    [] status = "preparing" -> "ready"
    [] status = "ready" -> "delivered"
    [] status = "delivered" -> "paid"
    [] OTHER -> Null

QuickNewStatusSkipsReady(status) ==
  CASE status = "new" -> "preparing"
    [] status = "preparing" -> "delivered"
    [] status = "ready" -> "delivered"
    [] status = "delivered" -> "paid"
    [] OTHER -> Null

\* the switch of handleQuickStatusUpdate; Null where it returns early
QuickNewStatus(status) ==
  CASE status = "new" -> "preparing"
    [] status = "preparing" -> "ready"
    [] status = "ready" -> "delivered"
    [] status = "delivered" -> "paid"
    [] OTHER -> Null

DialogNewStatusSkipsPreparing(status) ==
  IF status = "new" THEN "ready"
  ELSE IF status = "preparing" THEN "ready"
  ELSE IF status = "ready" THEN "delivered"
  ELSE IF status = "delivered" THEN "paid"
  ELSE Null

\* the status buttons of the details dialog: one button per status, each with
\* its own literal target; Null where no button is rendered
DialogNewStatus(status) ==
  IF status = "new" THEN "preparing"
  ELSE IF status = "preparing" THEN "ready"
  ELSE IF status = "ready" THEN "delivered"
  ELSE IF status = "delivered" THEN "paid"
  ELSE Null

\* the part of the state no handler of OrdersPage touches
ordersFrame == <<location, menuOnlyVars, authVars, lastOp>>

\* executeApiCall up to its await, for a call of the page
StartCall(c) ==
  /\ Len(calls) < MaxOrderCalls
  /\ issued < MaxIssued
  /\ issued' = issued + 1
  /\ isLoading' = TRUE
  /\ error' = Null
  /\ calls' = Append(calls, c)
  /\ toasts' = {}

\* The order table of the selected tab is on screen and can be clicked: no
\* "Loading ..." placeholder replaces it and no modal dialog covers it.
RowsVisible ==
  /\ ~isOrderDetailsOpen
  /\ ~isLoading
  /\ (currentStatus = "all" \/ ~statusLoading)
  /\ orders # <<>>

\* handleTabChange -> loadOrdersByStatus(value)
OrdersTabChange(value) ==
  /\ ~isOrderDetailsOpen
  /\ value # currentStatus
  /\ currentStatus' = value
  /\ statusLoading' = IF value = "all" THEN statusLoading ELSE TRUE
  /\ StartCall(OrdersCall(IF value = "all" THEN "loadOrders" ELSE "loadOrdersByStatus",
                          0, value, FALSE))
  /\ UNCHANGED <<ordersFrame, products, orders, selectedOrder, isOrderDetailsOpen, server>>

\* "View Details" of row k
handleViewOrder(k) ==
  /\ RowsVisible
  /\ k \in 1..Len(orders)
  /\ StartCall(OrdersCall("handleViewOrder", orders[k].id, "", FALSE))
  /\ UNCHANGED <<ordersFrame, products, orders, selectedOrder, isOrderDetailsOpen,
                 currentStatus, statusLoading, server>>

\* the details dialog is dismissed: setIsOrderDetailsOpen(false)
CloseDetails ==
  /\ isOrderDetailsOpen
  /\ isOrderDetailsOpen' = FALSE
  /\ toasts' = {}
  /\ UNCHANGED <<ordersFrame, products, orders, selectedOrder, currentStatus,
                 statusLoading, server, issued, isLoading, error, calls>>

\* handleUpdateStatus up to its await
handleUpdateStatus(orderId, newStatus) ==
  /\ StartCall(OrdersCall("handleUpdateStatus", orderId, newStatus, TRUE))
  /\ UNCHANGED <<ordersFrame, products, orders, selectedOrder, isOrderDetailsOpen,
                 currentStatus, statusLoading, server>>

\* the "Mark as Paid" button of row k, rendered while the order is not paid
RowMarkAsPaid(k) ==
  /\ RowsVisible
  /\ k \in 1..Len(orders)
  /\ orders[k].status # "paid"
  /\ handleUpdateStatus(orders[k].id, "paid")

\* the status button of the details dialog, disabled={isLoading}
DialogStatusButton ==
  /\ isOrderDetailsOpen
  /\ selectedOrder # <<>>
  /\ ~isLoading
  /\ DialogNewStatus(selectedOrder[1].status) # Null
  /\ handleUpdateStatus(selectedOrder[1].id, DialogNewStatus(selectedOrder[1].status))

\* handleQuickStatusUpdate(order.id, order.status) up to its await, from a
\* click on row k or on its first button
handleQuickStatusUpdate(k) ==
  /\ RowsVisible
  /\ k \in 1..Len(orders)
  /\ LET newStatus == QuickNewStatus(orders[k].status)
     IN IF newStatus = Null
        THEN /\ toasts' = {}
             /\ UNCHANGED <<isLoading, error, calls, issued>>
        ELSE StartCall(OrdersCall("handleQuickStatusUpdate", orders[k].id,
                                  newStatus, TRUE))
  /\ UNCHANGED <<ordersFrame, products, orders, selectedOrder, isOrderDetailsOpen,
                 currentStatus, statusLoading, server>>

\* the handlers that change the items of an existing order
ItemKinds == {"handleAddItemToOrder", "handleUpdateItemQuantity", "handleRemoveItem"}

\* The requests the server can carry out: a request about an order must name
\* one that was not deleted (a deleted order keeps its place with the status
\* "deleted"), an item request must name a line the order has, and an order
\* takes MaxItems lines at most.
ServerAccepts(c) ==
  /\ c.id # 0 => server[c.id].status # "deleted"
  /\ CASE c.kind = "handleAddItemToOrder" -> Len(server[c.id].items) < MaxItems
       [] c.kind \in {"handleUpdateItemQuantity", "handleRemoveItem"} ->
            c.item \in 1..Len(server[c.id].items)
       [] OTHER -> TRUE

\* The server handles request i: it answers with an error and changes
\* nothing, or carries the request out and answers with the result.
ServerHandle(i, ok) ==
  /\ i \in 1..Len(calls)
  /\ ~calls[i].answered
  /\ ok => ServerAccepts(calls[i])
  /\ LET c == calls[i]
         held == CASE ~ok -> server
                   [] c.kind \in {"handleUpdateStatus", "handleQuickStatusUpdate"} ->
                        [server EXCEPT ![c.id].status = c.arg]
                   [] c.kind = "handleAddItemToOrder" ->
                        [server EXCEPT ![c.id].items = Append(@, c.quantity)]
                   [] c.kind = "handleUpdateItemQuantity" ->
                        [server EXCEPT ![c.id].items[c.item] = c.quantity]
                   [] c.kind = "handleRemoveItem" ->
                        [server EXCEPT ![c.id].items = RemoveAt(@, c.item)]
                   [] c.kind = "handleDeleteOrder" ->
                        [server EXCEPT ![c.id].status = "deleted"]
                   [] OTHER -> server
         body == CASE c.kind \in {"loadOrders", "loadOrdersByStatus"} ->
                        ServerOrders(held, c.arg)
                   [] c.kind = "loadProducts" -> Catalogue
                   [] c.kind = "loadTables" -> <<>>
                   [] c.kind \in ItemKinds \cup {"handleDeleteOrder"} -> <<>>
                   [] OTHER -> Snapshot(held[c.id])
     IN /\ server' = held
        /\ calls' = [calls EXCEPT ![i].answered = TRUE, ![i].ok = ok,
                                  ![i].body = IF ok THEN body ELSE <<>>]
  /\ toasts' = {}
  /\ UNCHANGED <<ordersFrame, products, orders, selectedOrder, isOrderDetailsOpen,
                 currentStatus, statusLoading, issued, isLoading, error>>

loadedOrdersOfCurrentTab(c) == IF c.arg = currentStatus THEN c.body ELSE orders

\* if (result) setOrders(result) of loadOrders and loadOrdersByStatus
loadedOrders(c) == c.body

updatedOrderWithLocalTotal(c) ==
  [c.body EXCEPT !.total = IF products = <<>> THEN 0 ELSE ServerTotal(c.body.items)]

\* const updatedOrder = await executeApiCall(() => api.orders.getById(orderId)):
\* the object the item handlers write into selectedOrder and into the list
updatedOrder(c) == c.body

\* Whether the item handler that awaited call c goes on to re-fetch the
\* order: "if (result && selectedOrder)", and "if (selectedOrder)" in
\* handleRemoveItem, which ignores the result of the removal.
Refetches(c, result) ==
  /\ c.kind \in ItemKinds
  /\ c.selectedOrder # <<>>
  /\ c.kind = "handleRemoveItem" \/ Truthy(result)

\* the second executeApiCall of an item handler, in the same closure
Refetch(c) ==
  [c EXCEPT !.kind = "getById", !.answered = FALSE, !.ok = FALSE, !.body = <<>>]

\* What the handler that awaited call c writes once executeApiCall has
\* returned: result is truthy exactly when ok.
OrdersAfter(c, ok) ==
  [orders |->
     CASE ok /\ c.kind \in {"loadOrders", "loadOrdersByStatus"} -> loadedOrders(c)
       [] ok /\ c.kind = "handleUpdateStatus" ->
            IF c.currentStatus # "all" /\ c.currentStatus # c.arg
            THEN FilterOrder(c.orders, c.id)
            ELSE MapOrder(c.orders, c.id, c.body)
       [] ok /\ c.kind = "handleQuickStatusUpdate" -> MapOrder(c.orders, c.id, c.body)
       [] ok /\ c.kind = "getById" -> MapOrder(c.orders, c.id, updatedOrder(c))
       [] c.kind = "handleDeleteOrder" -> FilterOrder(c.orders, c.id)
       [] OTHER -> orders,
   selectedOrder |->
     CASE ok /\ c.kind = "handleViewOrder" -> <<c.body>>
       [] ok /\ c.kind = "getById" -> <<updatedOrder(c)>>
       [] c.kind = "handleDeleteOrder" -> <<>>
       [] ok /\ c.kind = "handleUpdateStatus" /\ c.selectedOrder # <<>> ->
            IF c.selectedOrder[1].id = c.id THEN <<c.body>> ELSE selectedOrder
       [] OTHER -> selectedOrder,
   open |-> IF ok /\ c.kind = "handleViewOrder" THEN TRUE
            ELSE IF c.kind = "handleDeleteOrder" THEN FALSE
            ELSE isOrderDetailsOpen,
   statusLoading |-> IF c.kind = "loadOrdersByStatus" THEN FALSE ELSE statusLoading,
   products |-> IF ok /\ c.kind = "loadProducts" THEN Catalogue ELSE products,
   toasts |-> IF \/ ok /\ c.kind \in {"handleUpdateStatus", "handleQuickStatusUpdate",
                                       "getById"}
                 \/ c.kind = "handleDeleteOrder"
              THEN {"Success"} ELSE {}]

\* The response of call i arrives: executeApiCall finishes and the handler
\* that awaited it runs to its end.
OrdersSettle(i) ==
  /\ i \in 1..Len(calls)
  /\ calls[i].answered
  /\ LET c == calls[i]
         ret == executeApiCall(IF ~c.ok THEN Rejected
                               ELSE IF c.kind = "handleRemoveItem" THEN Null
                               ELSE OrderObj)
         after == OrdersAfter(c, Truthy(ret.result))
         again == Refetches(c, ret.result)
         newError == IF again THEN Null
                     ELSE IF ret.error # Null THEN ret.error ELSE error
     IN /\ isLoading' = again
        /\ error' = newError
        /\ calls' = IF again THEN Append(RemoveAt(calls, i), Refetch(c))
                    ELSE RemoveAt(calls, i)
        /\ orders' = after.orders
        /\ selectedOrder' = after.selectedOrder
        /\ isOrderDetailsOpen' = after.open
        /\ statusLoading' = after.statusLoading
        /\ products' = after.products
        /\ toasts' = after.toasts \cup ErrorEffect(error, newError)
  /\ UNCHANGED <<ordersFrame, currentStatus, server, issued>>

OrdersNext ==
  \/ \E value \in OrdersTabs : OrdersTabChange(value)
  \/ \E k \in 1..Len(orders) : handleViewOrder(k)
  \/ CloseDetails
  \/ \E k \in 1..Len(orders) : RowMarkAsPaid(k)
  \/ DialogStatusButton
  \/ \E k \in 1..Len(orders) : handleQuickStatusUpdate(k)
  \/ \E i \in 1..Len(calls) : \E ok \in BOOLEAN : ServerHandle(i, ok)
  \/ \E i \in 1..Len(calls) : OrdersSettle(i)

OrdersSpec == OrdersInit /\ [][OrdersNext]_vars

\* ------------------------------------------- the items of an existing order
\* The page with its lists loaded (or the product list failed to load) and
\* the details dialog open on order 1, which is new.
ItemsInit ==
  /\ location = OrdersRoute
  /\ selectedTable = NoTable
  /\ products \in {<<>>, Catalogue}
  /\ cart = <<>>
  /\ isCartOpen = FALSE
  /\ categoryLoading = FALSE
  /\ isPlacingOrder = FALSE
  /\ cartCustomerName = <<>>
  /\ activeTab = "all"
  /\ timers = <<>>
  /\ AuthIdle
  /\ orders = ServerOrders(ServerInit, "all")
  /\ selectedOrder = <<Snapshot(ServerInit[1])>>
  /\ isOrderDetailsOpen = TRUE
  /\ currentStatus = "all"
  /\ statusLoading = FALSE
  /\ server = ServerInit
  /\ issued = 0
  /\ isLoading = FALSE
  /\ error = Null
  /\ calls = <<>>
  /\ toasts = {}
  /\ lastOp = Op("mount", 0, "")

\* an item handler up to its first await
ItemCall(kind, item, quantity) ==
  /\ isOrderDetailsOpen
  /\ selectedOrder # <<>>
  /\ selectedOrder[1].status = "new"
  /\ StartCall([OrdersCall(kind, selectedOrder[1].id, "", TRUE)
                  EXCEPT !.item = item, !.quantity = quantity])
  /\ UNCHANGED <<ordersFrame, products, orders, selectedOrder, isOrderDetailsOpen,
                 currentStatus, statusLoading, server>>

\* "Add Item" of the details dialog, with a product selected
handleAddItemToOrder(quantity) ==
  /\ products # <<>>
  /\ ItemCall("handleAddItemToOrder", 0, quantity)

\* handleUpdateItemQuantity; no control of the page calls it, it is invoked
\* here where its sibling handlers can be
handleUpdateItemQuantity(item, quantity) ==
  /\ item \in 1..Len(selectedOrder[1].items)
  /\ ItemCall("handleUpdateItemQuantity", item, quantity)

\* "Remove" of a line of the details dialog
handleRemoveItem(item) ==
  /\ item \in 1..Len(selectedOrder[1].items)
  /\ ItemCall("handleRemoveItem", item, 0)

\* "Cancel Order" of the details dialog, rendered for a new order and
\* disabled={isLoading}: it closes the details dialog and opens the
\* confirmation, whose "Cancel Order" runs handleDeleteOrder up to its await
handleDeleteOrder ==
  /\ isOrderDetailsOpen
  /\ selectedOrder # <<>>
  /\ selectedOrder[1].status = "new"
  /\ ~isLoading
  /\ isOrderDetailsOpen' = FALSE
  /\ StartCall(OrdersCall("handleDeleteOrder", selectedOrder[1].id, "", TRUE))
  /\ UNCHANGED <<ordersFrame, products, orders, selectedOrder,
                 currentStatus, statusLoading, server>>

ItemsNext ==
  \/ \E quantity \in 1..MaxQty : handleAddItemToOrder(quantity)
  \/ \E item \in 1..MaxItems : \E quantity \in 1..MaxQty :
       selectedOrder # <<>> /\ handleUpdateItemQuantity(item, quantity)
  \/ \E item \in 1..MaxItems : selectedOrder # <<>> /\ handleRemoveItem(item)
  \/ DialogStatusButton
  \/ handleDeleteOrder
  \/ CloseDetails
  \/ \E i \in 1..Len(calls) : \E ok \in BOOLEAN : ServerHandle(i, ok)
  \/ \E i \in 1..Len(calls) : OrdersSettle(i)

ItemsSpec == ItemsInit /\ [][ItemsNext]_vars

\* --------------------------------------- token, interceptors and route guard
MaxRequests == 2       \* HTTP requests outstanding at once
MaxNavigations == 2    \* navigations asked for and not yet carried out

\* tokens the server issues for a login or a registration
Tokens == {"t1", "t2"}

\* the table of the QR code a guest scans
GuestTable == <<"5">>

LoginRoute == [path |-> "/login", table |-> NoTable]
RegisterRoute == [path |-> "/register", table |-> NoTable]
DashboardRoute == [path |-> "/dashboard", table |-> NoTable]

\* `${baseUrl}/table-orders/${tableId}` of QRCodeGenerator
generatedTableUrl(tableId) == [path |-> "/table-orders/", table |-> tableId]

\* `${window.location.origin}/dashboard/orders/table/${tableId}` of
\* QRCodeDisplay, also the route the menu of part_003 pushes after an order
tableUrl(tableId) == [path |-> "/dashboard/orders/table/", table |-> tableId]

\* the routes a browser is pointed at
AuthRoutes ==
  {HomeRoute, LoginRoute, RegisterRoute, MenuRoute, DashboardRoute,
   generatedTableUrl(GuestTable), tableUrl(GuestTable)}

\* the routes rendered inside DashboardLayout
InDashboard(route) == route.path \in {"/dashboard", "/dashboard/orders/table/"}

\* publicRoutes.includes(pathname): the pathname of a route with a table
\* segment is its path followed by the table, which the list does not hold
isPublicRoute(route) ==
  /\ route.table = NoTable
  /\ route.path \in {"/", "/login", "/register", "/menu"}

\* Where the guard's effect runs: inside DashboardLayout, which mounts it, and
\* on the routes the guard itself names as public.
GuardMounted(route) == InDashboard(route) \/ isPublicRoute(route)

isAuthenticatedIfNotEmpty == token # EmptyBody

\* tokenService.isAuthenticated: !!tokenService.getToken()
isAuthenticated == Truthy(token)

BearerOmitted(stored) == Null

\* the request interceptor: the Authorization header it sets, Null for none
Bearer(stored) == IF Truthy(stored) THEN stored ELSE Null

\* router.push(route), and window.location.href = route when hard
Navigation(route, hard) == [to |-> route, hard |-> hard]

ResponseInterceptorKeepsToken(status) ==
  [removeToken |-> FALSE,
   href |-> IF status = 401 THEN <<Navigation(LoginRoute, TRUE)>> ELSE <<>>,
   rejected |-> status # 200]

\* the response interceptor: a response passes, an error is rejected to the
\* caller, after the token is removed and /login is loaded when it is a 401
ResponseInterceptor(status) ==
  [removeToken |-> status = 401,
   href |-> IF status = 401 THEN <<Navigation(LoginRoute, TRUE)>> ELSE <<>>,
   rejected |-> status # 200]

AuthOp(op, endpoint, status, bearer, issuedToken, rejected) ==
  [op |-> op, endpoint |-> endpoint, status |-> status, bearer |-> bearer,
   token |-> issuedToken, rejected |-> rejected]

\* the part of the state the token service, the interceptors and the guard
\* leave alone
authFrame == <<menuOnlyVars, products, isLoading, error, calls, toasts, ordersVars>>

\* The application is opened at / in a browser that stores no token.
AuthInit ==
  /\ location = HomeRoute
  /\ MenuIdle
  /\ OrdersIdle
  /\ AuthIdle
  /\ isLoading = FALSE
  /\ error = Null
  /\ calls = <<>>
  /\ toasts = {}
  /\ lastOp = AuthOp("open", "", 0, Null, Null, FALSE)

\* The mount effect of useAuth in the dashboard's UserProfile: with a token
\* stored it validates the token, without one it only ends loading.
useAuthMount(route, pending) ==
  IF InDashboard(route) /\ isAuthenticated
  THEN Append(pending, [endpoint |-> "/auth/validate", bearer |-> Bearer(token)])
  ELSE pending

logoutKeepsTokenOnFailure(status) ==
  [removeToken |-> status = 200, user |-> Null,
   push |-> <<Navigation(LoginRoute, FALSE)>>, isLoading |-> FALSE]

\* logout of useAuth from the settling of apiService.auth.logout() on, whose
\* own finally block has removed the token: what its finally block does
logout(status) ==
  [removeToken |-> TRUE, user |-> Null,
   push |-> <<Navigation(LoginRoute, FALSE)>>, isLoading |-> FALSE]

\* A URL is opened in the browser: the document is loaded anew, local
\* storage keeps the token.
OpenUrl(route) ==
  /\ route \in AuthRoutes
  /\ location' = route
  /\ isChecking' = TRUE
  /\ checked' = <<>>
  /\ navigations' = <<>>
  /\ user' = Null
  /\ authLoading' = (InDashboard(route) => isAuthenticated)
  /\ requests' = useAuthMount(route, <<>>)
  /\ lastOp' = AuthOp("open", "", 0, Null, Null, FALSE)
  /\ UNCHANGED <<authFrame, token>>

\* the effect of AuthGuard, run after mount and after a change of pathname
checkAuth ==
  /\ GuardMounted(location)
  /\ checked # <<location>>
  /\ Len(navigations) < MaxNavigations
  /\ navigations' =
       IF ~isPublicRoute(location) /\ ~isAuthenticated
       THEN Append(navigations, Navigation(LoginRoute, FALSE))
       ELSE IF location = LoginRoute /\ isAuthenticated
       THEN Append(navigations, Navigation(DashboardRoute, FALSE))
       ELSE navigations
  /\ isChecking' = FALSE
  /\ checked' = <<location>>
  /\ lastOp' = AuthOp("checkAuth", "", 0, Null, Null, FALSE)
  /\ UNCHANGED <<authFrame, location, token, requests, user, authLoading>>

\* the pages that send a request to an endpoint
Senders(endpoint) ==
  CASE endpoint = "/auth/login" -> {LoginRoute}
    [] endpoint = "/auth/register" -> {RegisterRoute}
    [] endpoint = "/auth/logout" -> {DashboardRoute}
    [] OTHER -> {MenuRoute, DashboardRoute, tableUrl(GuestTable)}

\* a page sends a request through the axios instance
SendRequest(endpoint) ==
  /\ location \in Senders(endpoint)
  /\ Len(requests) < MaxRequests
  /\ Len(navigations) < MaxNavigations
  /\ requests' = Append(requests, [endpoint |-> endpoint, bearer |-> Bearer(token)])
  /\ authLoading' = IF endpoint = "/auth/logout" THEN TRUE ELSE authLoading
  /\ lastOp' = AuthOp("request", endpoint, 0, Bearer(token), Null, FALSE)
  /\ UNCHANGED <<authFrame, location, token, isChecking, checked, navigations, user>>

\* The response of request i arrives with an HTTP status and, for a login or
\* a registration that succeeded, a token: the response interceptor runs,
\* then the caller's continuation up to its end.
Respond(i, status, issuedToken) ==
  /\ i \in 1..Len(requests)
  /\ LET endpoint == requests[i].endpoint
         seen == ResponseInterceptor(status)
         signsIn == endpoint \in {"/auth/login", "/auth/register"} /\ ~seen.rejected
         held == InDashboard(location)
     IN /\ signsIn <=> issuedToken # Null
        /\ token' = IF endpoint = "/auth/logout"
                    THEN (IF logout(status).removeToken \/ seen.removeToken
                          THEN Null ELSE token)
                    ELSE IF signsIn THEN issuedToken
                    ELSE IF seen.removeToken \/ (endpoint = "/auth/validate" /\ seen.rejected)
                    THEN Null
                    ELSE token
        /\ navigations' = navigations \o seen.href \o
             (IF endpoint = "/auth/logout" THEN logout(status).push
              ELSE IF endpoint = "/auth/login" /\ signsIn
              THEN <<Navigation(DashboardRoute, FALSE)>>
              ELSE <<>>)
        /\ user' = IF held /\ endpoint = "/auth/logout" THEN logout(status).user
                   ELSE IF held /\ endpoint = "/auth/validate" /\ ~seen.rejected
                   THEN "user"
                   ELSE user
        /\ authLoading' = IF held /\ endpoint = "/auth/logout"
                          THEN logout(status).isLoading
                          ELSE IF held /\ endpoint = "/auth/validate" THEN FALSE
                          ELSE authLoading
        /\ lastOp' = AuthOp("response", endpoint, status, requests[i].bearer,
                            issuedToken, seen.rejected)
  /\ requests' = RemoveAt(requests, i)
  /\ UNCHANGED <<authFrame, location, isChecking, checked>>

\* The oldest navigation is carried out. window.location.href loads a new
\* document, which drops the requests and navigations of the old one;
\* router.push keeps them, and mounts the guard anew when it enters or
\* leaves DashboardLayout.
Navigate ==
  /\ navigations # <<>>
  /\ LET next == Head(navigations)
         remount == next.hard \/ InDashboard(next.to) # InDashboard(location)
     IN /\ location' = next.to
        /\ navigations' = IF next.hard THEN <<>> ELSE Tail(navigations)
        /\ requests' = IF remount
                       THEN useAuthMount(next.to, IF next.hard THEN <<>> ELSE requests)
                       ELSE requests
        /\ isChecking' = IF remount THEN TRUE ELSE isChecking
        /\ checked' = IF remount THEN <<>> ELSE checked
        /\ user' = IF remount THEN Null ELSE user
        /\ authLoading' = IF remount THEN (InDashboard(next.to) => isAuthenticated)
                          ELSE authLoading
  /\ lastOp' = AuthOp("navigate", "", 0, Null, Null, FALSE)
  /\ UNCHANGED <<authFrame, token>>

AuthNext ==
  \/ \E route \in AuthRoutes : OpenUrl(route)
  \/ checkAuth
  \/ \E endpoint \in {"/auth/login", "/auth/register", "/auth/logout", "/products"} :
       SendRequest(endpoint)
  \/ \E i \in 1..Len(requests) : \E status \in {200, 401, 500} :
       \E issuedToken \in Tokens \cup {Null} : Respond(i, status, issuedToken)
  \/ Navigate

AuthSpec == AuthInit /\ [][AuthNext]_vars

\* ------------------------------------------------------ the pure functions
\* The values handleApiError is called with: an AxiosError with its message,
\* its response (status and body) and its request, an Error, and a thrown
\* value that is no Error. A body field that is absent is "" / kind "none".
ApiErrors ==
  {[axios |-> TRUE, isError |-> TRUE, message |-> m, response |-> FALSE,
    status |-> 0, data |-> FALSE, error |-> "",
    details |-> [kind |-> "none", values |-> <<>>], request |-> q] :
     m \in {"Network Error", "timeout of 10000ms exceeded"}, q \in BOOLEAN}
  \cup
  {[axios |-> TRUE, isError |-> TRUE, message |-> m, response |-> TRUE,
    status |-> s, data |-> b, error |-> IF b THEN t ELSE "",
    details |-> IF b THEN d ELSE [kind |-> "none", values |-> <<>>],
    request |-> TRUE] :
     m \in {"Network Error", "Request failed"}, s \in {400, 401, 403, 404, 500, 418},
     b \in BOOLEAN, t \in {"", "Table is occupied"},
     d \in {[kind |-> "none", values |-> <<>>],
            [kind |-> "string", values |-> <<"">>],
            [kind |-> "string", values |-> <<"Invalid quantity">>],
            [kind |-> "object", values |-> <<>>],
            [kind |-> "object", values |-> <<"name is required">>],
            [kind |-> "object", values |-> <<"name is required", "price is required">>]}}
  \cup
  {[axios |-> FALSE, isError |-> i, message |-> IF i THEN m ELSE "", response |-> FALSE,
    status |-> 0, data |-> FALSE, error |-> "",
    details |-> [kind |-> "none", values |-> <<>>], request |-> FALSE] :
     i \in BOOLEAN, m \in {"", "Unexpected token"}}

\* Object.values(details).join(", ")
RECURSIVE JoinValues(_)
JoinValues(values) ==
  IF values = <<>> THEN ""
  ELSE IF Len(values) = 1 THEN Head(values)
  ELSE Head(values) \o ", " \o JoinValues(Tail(values))

handleApiErrorDetailsFirst(e) ==
  IF e.axios /\ e.message = "Network Error"
  THEN "Cannot connect to the server. Please check your connection or try again later."
  ELSE IF e.axios /\ e.response /\ e.data /\ e.details.kind = "string"
          /\ e.details.values # <<"">>
  THEN e.details.values[1]
  ELSE IF e.axios /\ e.response /\ e.data /\ e.details.kind = "object"
  THEN JoinValues(e.details.values)
  ELSE IF e.axios /\ e.response /\ e.data /\ e.error # ""
  THEN e.error
  ELSE IF e.axios /\ e.response
  THEN CASE e.status = 400 -> "Bad request. Please check your input."
         [] e.status = 401 -> "Unauthorized. Please log in again."
         [] e.status = 403 -> "Forbidden. You do not have permission to access this resource."
         [] e.status = 404 -> "Resource not found."
         [] e.status = 500 -> "Server error. Please try again later."
         [] OTHER -> "Error: " \o ToString(e.status)
  ELSE IF e.axios /\ e.request
  THEN "Network error. Please check your connection."
  ELSE IF e.isError THEN e.message ELSE "An unknown error occurred"

\* handleApiError of lib/api
handleApiError(e) ==
  IF e.axios /\ e.message = "Network Error"
  THEN "Cannot connect to the server. Please check your connection or try again later."
  ELSE IF e.axios /\ e.response /\ e.data /\ e.error # ""
  THEN e.error
  ELSE IF e.axios /\ e.response /\ e.data /\ e.details.kind = "string"
          /\ e.details.values # <<"">>
  THEN e.details.values[1]
  ELSE IF e.axios /\ e.response /\ e.data /\ e.details.kind = "object"
  THEN JoinValues(e.details.values)
  ELSE IF e.axios /\ e.response
  THEN CASE e.status = 400 -> "Bad request. Please check your input."
         [] e.status = 401 -> "Unauthorized. Please log in again."
         [] e.status = 403 -> "Forbidden. You do not have permission to access this resource."
         [] e.status = 404 -> "Resource not found."
         [] e.status = 500 -> "Server error. Please try again later."
         [] OTHER -> "Error: " \o ToString(e.status)
  ELSE IF e.axios /\ e.request
  THEN "Network error. Please check your connection."
  ELSE IF e.isError THEN e.message ELSE "An unknown error occurred"

MaxTableOrders == 2    \* orders the server returns for a table

\* What GET /orders/table/{id} can answer: a failure, or the orders of the
\* table in the order the server chooses, each with its status and the
\* instant it was placed.
TableOrderLists ==
  {[ok |-> FALSE, orders |-> <<>>]} \cup
  {[ok |-> TRUE, orders |-> list] :
     list \in UNION {[1..n -> [tableId : {5}, status : {"new", "ready", "paid"},
                               orderDate : 1..MaxTableOrders]] :
                       n \in 0..MaxTableOrders}}

\* getCurrentOrderForTable of useOrderApi: <<>> for null, <<order>>
getCurrentOrderForTable(response) ==
  LET result == IF response.ok THEN response.orders ELSE <<>>
      found == {k \in 1..Len(result) : result[k].status # "paid"}
  IN IF response.ok /\ Len(result) > 0 /\ found # {}
     THEN <<result[CHOOSE k \in found : \A j \in found : k <= j]>>
     ELSE <<>>

\* No page is open and a function is about to be called.
FnInit ==
  /\ location = HomeRoute
  /\ MenuIdle
  /\ OrdersIdle
  /\ AuthIdle
  /\ isLoading = FALSE
  /\ error = Null
  /\ calls = <<>>
  /\ toasts = {}
  /\ lastOp = [fn |-> "none", input |-> <<>>, result |-> <<>>]

\* fn is called with input and returns result
Apply(fn, input, result) ==
  /\ lastOp' = [fn |-> fn, input |-> input, result |-> result]
  /\ UNCHANGED <<location, menuVars, calls, timers, toasts, otherVars>>

FnNext ==
  \/ \E e \in ApiErrors : Apply("handleApiError", e, handleApiError(e))
  \/ \E response \in TableOrderLists :
       Apply("getCurrentOrderForTable", response, getCurrentOrderForTable(response))

FnSpec == FnInit /\ [][FnNext]_vars

getStatusBadgeWithoutDelivered(status) ==
  CASE status = "new" -> [className |-> "bg-blue-500", label |-> "New"]
    [] status = "preparing" -> [className |-> "bg-yellow-500", label |-> "Preparing"]
    [] status = "ready" -> [className |-> "bg-green-500", label |-> "Ready"]
    [] status = "paid" -> [className |-> "bg-gray-500", label |-> "Paid"]
    [] OTHER -> [className |-> "", label |-> "Unknown"]

\* getStatusBadge of OrdersPage: the Badge it renders
getStatusBadge(status) ==
  CASE status = "new" -> [className |-> "bg-blue-500", label |-> "New"]
    [] status = "preparing" -> [className |-> "bg-yellow-500", label |-> "Preparing"]
    [] status = "ready" -> [className |-> "bg-green-500", label |-> "Ready"]
    [] status = "delivered" -> [className |-> "bg-purple-500", label |-> "Delivered"]
    [] status = "paid" -> [className |-> "bg-gray-500", label |-> "Paid"]
    [] OTHER -> [className |-> "", label |-> "Unknown"]

\* getStatusBadge of the OrderDetails component
OrderDetails_getStatusBadge(status) ==
  CASE status = "new" -> [className |-> "bg-blue-500", label |-> "New"]
    [] status = "preparing" -> [className |-> "bg-yellow-500", label |-> "Preparing"]
    [] status = "ready" -> [className |-> "bg-green-500", label |-> "Ready"]
    [] status = "delivered" -> [className |-> "bg-purple-500", label |-> "Delivered"]
    [] status = "paid" -> [className |-> "bg-gray-500", label |-> "Paid"]
    [] OTHER -> [className |-> "", label |-> "Unknown"]

\* getStatusBadge of the table-orders page
TableOrders_getStatusBadge(status) ==
  CASE status = "new" -> [className |-> "bg-blue-500", label |-> "New"]
    [] status = "preparing" -> [className |-> "bg-yellow-500", label |-> "Preparing"]
    [] status = "ready" -> [className |-> "bg-green-500", label |-> "Ready"]
    [] status = "delivered" -> [className |-> "bg-purple-500", label |-> "Delivered"]
    [] status = "paid" -> [className |-> "bg-gray-500", label |-> "Paid"]
    [] OTHER -> [className |-> "", label |-> "Unknown"]

\* ------------------------------- the menu page with the table selector
\* This variant of MenuPage has the cart and the product tabs of the page
\* above (addToCart, removeFromCart, handleTabChange and the cart dialog are
\* the same text), no guest-name field and no isPlacingOrder; it takes the
\* table from the URL or from a Select of the cart dialog.

\* <SelectItem value={num.toString()}>, two of the twelve
SelectItems == {<<"5">>, <<"7">>}

\* the first render and its mount effects: the table parameter of the URL is
\* stored when it is there, loadProducts() is started
SelectorInit == Init

\* <Select value={selectedTable || undefined} onValueChange={setSelectedTable}>,
\* rendered in the cart dialog while the cart has a line and no table is set
Selector_setSelectedTable(value) ==
  /\ mounted
  /\ UNCHANGED otherVars
  /\ isCartOpen
  /\ Len(cart) > 0
  /\ ~TruthyText(selectedTable)
  /\ selectedTable' = value
  /\ toasts' = {}
  /\ lastOp' = Op("selectTable", 0, "")
  /\ UNCHANGED <<location, products, cart, isCartOpen, categoryLoading,
                 isPlacingOrder, cartCustomerName, isLoading,
                 error, activeTab, calls, timers>>

\* handleCheckout up to its await, from the Place Order button with
\* disabled={cart.length === 0 || !selectedTable || isLoading}
Selector_handleCheckout ==
  /\ mounted
  /\ UNCHANGED otherVars
  /\ isCartOpen
  /\ ~(Len(cart) = 0 \/ ~TruthyText(selectedTable) \/ isLoading)
  /\ ~(~TruthyText(selectedTable) \/ Len(cart) = 0)
  /\ Len(CreateCalls) < MaxCheckouts
  /\ isLoading' = TRUE
  /\ error' = Null
  /\ activeTab' = TabAfter(activeTab, isLoading', categoryLoading)
  /\ calls' = Append(calls, Call("create", "", selectedTable, <<>>, OrderItems(cart)))
  /\ toasts' = {}
  /\ lastOp' = Op("checkout", 0, "accepted")
  /\ UNCHANGED <<location, selectedTable, products, cart, isCartOpen,
                 categoryLoading, isPlacingOrder, cartCustomerName, timers>>

Selector_AfterCheckoutIgnoresResult(result, table, c, open) ==
  [toasts |-> {"Order Placed Successfully!"}, cart |-> <<>>, open |-> FALSE,
   push |-> IF TruthyText(table) THEN <<tableUrl(table)>> ELSE <<>>]

\* handleCheckout after its await: if (result) { toast; setCart([]);
\* setIsCartOpen(false); if (selectedTable) router.push(...) }, with the
\* selectedTable of the render that started it
Selector_AfterCheckout(result, table, c, open) ==
  IF Truthy(result)
  THEN [toasts |-> {"Order Placed Successfully!"}, cart |-> <<>>, open |-> FALSE,
        push |-> IF TruthyText(table) THEN <<tableUrl(table)>> ELSE <<>>]
  ELSE [toasts |-> {}, cart |-> c, open |-> open, push |-> <<>>]

\* The response of an outstanding call arrives. A product load ends as on the
\* page above; a create call ends executeApiCall and the rest of
\* handleCheckout. router.push leaves the page, which unmounts it; state
\* updates of a page that is no longer mounted are dropped, toasts and
\* router.push are not.
Selector_Settle(i, response) ==
  /\ i \in 1..Len(calls)
  /\ IF calls[i].kind # "create"
     THEN Settle(i, response)
     ELSE LET call == calls[i]
              ret == executeApiCall(response)
              done == Selector_AfterCheckout(ret.result, call.table, cart, isCartOpen)
              newError == IF ret.error # Null THEN ret.error ELSE error
          IN /\ UNCHANGED otherVars
             /\ calls' = RemoveAt(calls, i)
             /\ lastOp' = Op("settleCreate", 0, response)
             /\ timers' = timers
             /\ IF done.push # <<>>
                THEN /\ location' = done.push[1]
                     /\ toasts' = done.toasts
                     /\ Unmounted
                ELSE /\ location' = location
                     /\ IF mounted
                        THEN /\ isLoading' = FALSE
                             /\ error' = newError
                             /\ activeTab' = TabAfter(activeTab, isLoading', categoryLoading)
                             /\ cart' = done.cart
                             /\ isCartOpen' = done.open
                             /\ toasts' = done.toasts \cup ErrorEffect(error, newError)
                             /\ UNCHANGED <<selectedTable, products, categoryLoading,
                                            isPlacingOrder, cartCustomerName>>
                        ELSE /\ toasts' = done.toasts
                             /\ UNCHANGED menuVars

\* the back button of the header, rendered when a table is selected
Selector_goBackToTable ==
  /\ mounted
  /\ UNCHANGED otherVars
  /\ TruthyText(selectedTable)
  /\ location' = IF TruthyText(selectedTable) THEN tableUrl(selectedTable) ELSE HomeRoute
  /\ toasts' = {}
  /\ lastOp' = Op("navigate", 0, "")
  /\ Unmounted
  /\ UNCHANGED <<calls, timers>>

\* The page as the guest drives it, on the tab it was loaded with.
SelectorNext ==
  \/ \E p \in Products : AddFromCard(p)
  \/ \E i \in 1..Len(cart) : CartPlus(i)
  \/ \E i \in 1..Len(cart) : CartMinus(i)
  \/ OpenCart
  \/ CloseCart
  \/ \E value \in SelectItems : Selector_setSelectedTable(value)
  \/ Selector_handleCheckout
  \/ \E i \in 1..Len(calls) : \E response \in Responses : Selector_Settle(i, response)
  \/ Selector_goBackToTable

SelectorSpec == SelectorInit /\ [][SelectorNext]_vars

TypeOK ==
  /\ isCartOpen \in BOOLEAN
  /\ isPlacingOrder \in BOOLEAN
  /\ isLoading \in BOOLEAN
  /\ categoryLoading \in BOOLEAN
  /\ error \in {Null, ErrorMessage}
  /\ activeTab \in TabValues
  /\ cartCustomerName \in NameInputs
  /\ Len(calls) <= MaxLoads + MaxCheckouts

\* ================================================================ claims
Blank(s) == \A i \in 1..Len(s) : s[i] = " "
LastTimer == timers[Len(timers)]
SuccessToast == "Order Placed Successfully!"
FailureToasts == {"Order Submitted", "Order Submission Error"}

\* some precondition of the submission is not met
InvalidCheckout == selectedTable = NoTable \/ cart = <<>> \/ Blank(cartCustomerName)

\* C1: a checkout attempted while no table is selected, or the cart is empty,
\* or the guest name is blank after trimming, is refused with a validation
\* message: it issues no request, schedules no navigation and leaves the cart,
\* the guest name, the cart panel and isPlacingOrder as they were (false when
\* the flow is idle).
C1_RefusedCheckoutIsInert ==
  [][(lastOp'.op = "checkout" /\ InvalidCheckout) =>
       /\ lastOp'.res # "accepted"
       /\ toasts' \in {{"Cannot place order"}, {"Name Required"}}
       /\ calls' = calls
       /\ timers' = timers
       /\ cart' = cart
       /\ cartCustomerName' = cartCustomerName
       /\ isCartOpen' = isCartOpen
       /\ isPlacingOrder' = isPlacingOrder
       /\ isLoading' = isLoading]_vars

C1_Witness ==
  /\ lastOp = Op("checkout", 0, "Name Required")
  /\ selectedTable # NoTable
  /\ cart # <<>>
  /\ cartCustomerName = <<" ">>
  /\ ~isPlacingOrder
  /\ CreateCalls = <<>>

C3_FailureDelayIsLonger ==
  (lastOp.op = "settleCreate" /\ lastOp.res # OrderObj) =>
    LastTimer.delay > SuccessDelay

\* C4: when the order-creation call returns an order, the cart is empty, the
\* guest name is cleared, the cart panel is closed, the success message is
\* produced and a navigation to /table-orders/{table} is scheduled after the
\* short delay.
C4_SuccessClearsAndNavigates ==
  (mounted /\ lastOp.op = "settleCreate" /\ lastOp.res = OrderObj) =>
    /\ cart = <<>>
    /\ cartCustomerName = <<>>
    /\ ~isCartOpen
    /\ SuccessToast \in toasts
    /\ toasts \cap FailureToasts = {}
    /\ timers # <<>>
    /\ LastTimer = [dest |-> [path |-> "/table-orders/", table |-> selectedTable],
                    delay |-> 1000]

C4_Witness ==
  /\ mounted
  /\ lastOp = Op("settleCreate", 0, OrderObj)
  /\ toasts = {SuccessToast}
  /\ cart = <<>>
  /\ Len(timers) = 1

\* C5: every checkout that passes validation issues exactly one order-creation
\* request, whose items are the cart lines of that moment (product id and
\* quantity of each line, in order); no other step issues an order-creation
\* request, so after a failure none is issued until checkout is invoked again.
C5_OneRequestPerCheckout ==
  [][/\ (lastOp'.op = "checkout" /\ ~InvalidCheckout) => lastOp'.res = "accepted"
     /\ IF lastOp'.op = "checkout" /\ lastOp'.res = "accepted"
        THEN /\ Len(calls') = Len(calls) + 1
             /\ SubSeq(calls', 1, Len(calls)) = calls
             /\ calls'[Len(calls')].kind = "create"
             /\ calls'[Len(calls')].items =
                  [i \in 1..Len(cart) |->
                     [productId |-> cart[i].id, quantity |-> cart[i].quantity]]
        ELSE Len(CreateCalls') <= Len(CreateCalls)]_vars

C5_Witness ==
  /\ lastOp = Op("checkout", 0, "accepted")
  /\ Len(timers) = 1
  /\ Len(CreateCalls) = 1
  /\ \E i \in 1..Len(cart) : cart[i].quantity = 2

\* C6: the submission flow moves only Idle -> Submitting -> Settled: while the
\* page is shown isPlacingOrder is true exactly while an order-creation request
\* is outstanding and at most one is; it becomes true only by an accepted
\* checkout, which starts only while it is false; it becomes false only when
\* the request settles (or the page is left), and the task in which the
\* request settles, with success or failure, ends with it false.
C6_SubmissionFlow ==
  /\ [](mounted => /\ (isPlacingOrder <=> CreateCalls # <<>>)
                   /\ Len(CreateCalls) <= 1)
  /\ [][/\ (~isPlacingOrder /\ isPlacingOrder') =>
              lastOp' = Op("checkout", 0, "accepted")
        /\ (lastOp'.op = "checkout" /\ lastOp'.res = "accepted") =>
              (~isPlacingOrder /\ isPlacingOrder')
        /\ (isPlacingOrder /\ ~isPlacingOrder') =>
              lastOp'.op \in {"settleCreate", "navigate"}
        /\ lastOp'.op = "settleCreate" => ~isPlacingOrder']_vars

C6_Witness ==
  /\ mounted
  /\ isPlacingOrder
  /\ ~isLoading
  /\ Len(CreateCalls) = 1
  /\ timers # <<>>

\* C7: add(product): if the cart has a line with product.id, that line's
\* quantity grows by exactly 1 and no line is added; otherwise one line with
\* quantity 1 is appended; every other line is unchanged.  Adding the same
\* product twice to an empty cart gives one line of quantity 2.
C7_Add ==
  [][lastOp'.op = "add" =>
       LET id == lastOp'.id IN
       /\ IF \E i \in 1..Len(cart) : cart[i].id = id
          THEN /\ Len(cart') = Len(cart)
               /\ \A i \in 1..Len(cart) :
                    cart'[i] = IF cart[i].id = id
                               THEN [cart[i] EXCEPT !.quantity = cart[i].quantity + 1]
                               ELSE cart[i]
          ELSE /\ Len(cart') = Len(cart) + 1
               /\ SubSeq(cart', 1, Len(cart)) = cart
               /\ cart'[Len(cart')].id = id
               /\ cart'[Len(cart')].quantity = 1
       /\ \A p \in Products :
            LET twice == addToCart(addToCart(<<>>, p), p)
            IN Len(twice) = 1 /\ twice[1].id = p.id /\ twice[1].quantity = 2]_vars

C7_Witness ==
  /\ lastOp.op = "add"
  /\ Len(cart) = 2
  /\ \E i \in 1..Len(cart) : cart[i].id = lastOp.id /\ cart[i].quantity = 2

\* C8: remove(productId): if the line for productId has quantity > 1 its
\* quantity drops by exactly 1 and the line stays; if its quantity is 1 the
\* line is deleted; every other line is unchanged.
C8_Remove ==
  [][lastOp'.op = "remove" =>
       LET id == lastOp'.id IN
       \E k \in 1..Len(cart) :
         /\ cart[k].id = id
         /\ IF cart[k].quantity > 1
            THEN cart' = [cart EXCEPT ![k].quantity = cart[k].quantity - 1]
            ELSE cart' = SubSeq(cart, 1, k - 1) \o SubSeq(cart, k + 1, Len(cart))]_vars

C8_Witness ==
  /\ lastOp.op = "remove"
  /\ Len(cart) = 1
  /\ cart[1].id # lastOp.id
  /\ cart[1].quantity = 2

\* C9: the cart holds at most one line per product identifier and every
\* line's quantity is an integer >= 1.
C9_CartWellFormed ==
  /\ \A i, j \in 1..Len(cart) : cart[i].id = cart[j].id => i = j
  /\ \A i \in 1..Len(cart) : cart[i].quantity \in Nat /\ cart[i].quantity >= 1

C9_Witness ==
  /\ lastOp.op = "remove"
  /\ Len(cart) = 2
  /\ \E i \in 1..Len(cart) : cart[i].id = lastOp.id /\ cart[i].quantity = 1

\* C10: totalItems() is the sum of the line quantities and totalPrice() the sum
\* of price x quantity over the lines (prices in cents): 0 for the empty cart,
\* and 3 items and 12.00 for the cart of A (3.50) x2 and B (5.00) x1.
RECURSIVE SumOver(_, _, _)
SumOver(c, n, byPrice) ==
  IF n = 0 THEN 0
  ELSE SumOver(c, n - 1, byPrice)
         + (IF byPrice THEN c[n].price * c[n].quantity ELSE c[n].quantity)

ExampleCart ==
  <<[id |-> 1, price |-> 350, category |-> "coffee", quantity |-> 2],
    [id |-> 2, price |-> 500, category |-> "pastry", quantity |-> 1]>>

C10_Totals ==
  /\ getTotalItems(cart) = SumOver(cart, Len(cart), FALSE)
  /\ getTotalPrice(cart) = SumOver(cart, Len(cart), TRUE)
  /\ cart = <<>> => getTotalPrice(cart) = 0 /\ getTotalItems(cart) = 0
  /\ cart = ExampleCart => getTotalItems(cart) = 3 /\ getTotalPrice(cart) = 1200

C10_Witness ==
  /\ mounted
  /\ cart = ExampleCart
  /\ lastOp.op = "add"

\* C11: one executeApiCall with no overlapping call on the same hook instance:
\* on entry isLoading is true and error is null; when the call resolves, its
\* result is returned, isLoading is false and error is still null; when it
\* rejects, the translated message is stored in error, null is returned, the
\* returned promise does not reject, and isLoading is false.
C11_ExecuteApiCallContract ==
  [][/\ lastOp'.op = "start" => (isLoading' /\ error' = Null)
     /\ (lastOp'.op = "return" /\ lastOp'.alone) =>
          /\ ~lastOp'.threw
          /\ ~isLoading'
          /\ IF lastOp'.response # "rejected"
             THEN /\ lastOp'.res = lastOp'.response
                  /\ lastOp'.res \in {lastOp'.kind, "", "null"}
                  /\ error' = "null"
             ELSE lastOp'.res = "null" /\ error' = ErrorMessage]_vars

C11_Witness ==
  /\ lastOp.op = "return"
  /\ lastOp.alone
  /\ lastOp.response = Rejected
  /\ error = ErrorMessage
  /\ ~isLoading
  /\ calls = <<>>

\* C12: at most one asynchronous call is outstanding per useApi instance: no
\* page starts a second executeApiCall on an instance whose earlier call has
\* not settled, so isLoading = false means that no call of the instance is
\* outstanding.
C12_OneCallPerHook ==
  /\ Len(calls) <= 1
  /\ ~isLoading => calls = <<>>

\* position of a status in new < preparing < ready < delivered < paid
Rank(status) == CHOOSE r \in 1..5 : <<"new", "preparing", "ready", "delivered", "paid">>[r] = status

\* the immediate successor in the order, "null" for paid and for other values
Successor(status) ==
  IF status \in {"new", "preparing", "ready", "delivered"}
  THEN <<"new", "preparing", "ready", "delivered", "paid">>[Rank(status) + 1]
  ELSE "null"

\* the status the list captured by a call shows for the order it is about
ShownTo(c) == {c.orders[k].status : k \in {j \in 1..Len(c.orders) : c.orders[j].id = c.id}}

\* C17: next(status) is the immediate successor in new < preparing < ready <
\* delivered < paid, and nothing for paid and for values outside the
\* enumeration; getNextStatus of the order-details component and the switch of
\* handleQuickStatusUpdate agree on every input; next(new) = preparing; each
\* request a quick update sends asks for the successor of the status its row
\* showed.
C17_NextStatus ==
  /\ \A status \in {"new", "preparing", "ready", "delivered", "paid", "cancelled", ""} :
       /\ getNextStatus(status) = Successor(status)
       /\ QuickNewStatus(status) = getNextStatus(status)
  /\ getNextStatus("new") = "preparing"
  /\ getNextStatus("paid") = "null"
  /\ \A i \in 1..Len(calls) :
       calls[i].kind = "handleQuickStatusUpdate" =>
         ShownTo(calls[i]) = {s \in {"new", "preparing", "ready", "delivered"} :
                                Successor(s) = calls[i].arg}

C17_Witness ==
  \E i, j \in 1..Len(calls) :
    /\ calls[i].kind = "handleQuickStatusUpdate"
    /\ calls[i].arg = "preparing"
    /\ calls[j].kind = "handleQuickStatusUpdate"
    /\ calls[j].arg = "paid"

\* C18: under any interleaving of the status-update requests of the orders
\* page and of their responses, the status the list holds for an order never
\* moves backwards in new < preparing < ready < delivered < paid, and never
\* changes once it is paid: no step in which the response of a status update
\* is handled lowers the status of an order of the list.
C18_StatusMonotonic ==
  [][(\E i \in 1..Len(calls) :
        /\ calls[i].kind \in {"handleUpdateStatus", "handleQuickStatusUpdate"}
        /\ calls' = RemoveAt(calls, i)) =>
     \A k \in 1..Len(orders) : \A j \in 1..Len(orders') :
       orders[k].id = orders'[j].id =>
         Rank(orders'[j].status) >= Rank(orders[k].status)]_vars

\* the status-update request a step has sent, if it has sent one
SentUpdate == {calls'[i] : i \in {j \in 1..Len(calls') :
                 /\ j > Len(calls)
                 /\ calls'[j].kind \in {"handleUpdateStatus", "handleQuickStatusUpdate"}}}

\* the status the control that sent c showed: the row of the list, or the
\* selected order while the details dialog is open
ShownBy(c) ==
  IF isOrderDetailsOpen THEN {selectedOrder[1].status}
  ELSE {orders[k].status : k \in {j \in 1..Len(orders) : orders[j].id = c.id}}

\* C19 as stated: every status-update request a control of the orders page
\* issues for an order targets the immediate successor of the status the
\* client shows for that order, never a later status.
C19_NextStepOnly ==
  [][\A c \in SentUpdate : \A shown \in ShownBy(c) : c.arg = Successor(shown)]_vars

\* C19, amended: every status-update request a control of the orders page
\* issues for an order targets the immediate successor of the status shown
\* for that order or, from the row's "Mark as Paid" button, the final status
\* paid, whatever status is shown; the status button of the details dialog
\* always targets the immediate successor; no request is issued for an order
\* shown as paid.
C19_NextStepOrPaid ==
  [][\A c \in SentUpdate :
       /\ ShownBy(c) # {}
       /\ \A shown \in ShownBy(c) :
            /\ shown # "paid"
            /\ c.arg = Successor(shown) \/ (~isOrderDetailsOpen /\ c.arg = "paid")]_vars

C19_Witness ==
  \E i, j \in 1..Len(calls) :
    /\ calls[i].kind = "handleUpdateStatus"
    /\ calls[i].arg = "paid"
    /\ ShownTo(calls[i]) = {"new"}
    /\ calls[j].kind = "handleQuickStatusUpdate"
    /\ calls[j].arg = "paid"
    /\ ShownTo(calls[j]) = {"delivered"}

\* the order objects the page holds
HeldOrders ==
  {orders[k] : k \in 1..Len(orders)} \cup {selectedOrder[k] : k \in 1..Len(selectedOrder)}

\* C20: after an item mutation on an existing order (add item, update
\* quantity, remove item) every order object the page holds, as selected order
\* and as list entry, is one the server returned: its total is the server's
\* total of its items, never one computed by the client. The response of the
\* mutation itself writes nothing; the re-fetch is sent in the step that
\* handles the answered mutation, so after it; a step that changes a held
\* order object writes the body of a successful re-fetch or status update
\* (a delete only drops objects), and a failed mutation or re-fetch leaves the
\* held orders as they were.
C20_ServerReturnedOrders ==
  [][/\ \A o \in HeldOrders' : o.total = ServerTotal(o.items)
     /\ ~(HeldOrders' \subseteq HeldOrders) =>
          \E i \in 1..Len(calls) :
            /\ calls[i].answered /\ calls[i].ok
            /\ calls[i].kind \in {"getById", "handleUpdateStatus"}
            /\ Len(calls') = Len(calls) - 1
            /\ selectedOrder' = <<calls[i].body>>
            /\ orders' = MapOrder(calls[i].orders, calls[i].id, calls[i].body)
     /\ Len(OfKind(calls', "getById")) > Len(OfKind(calls, "getById")) =>
          /\ \E i \in 1..Len(calls) :
               /\ calls[i].kind \in ItemKinds
               /\ calls[i].answered
               /\ calls[i].ok \/ calls[i].kind = "handleRemoveItem"
          /\ Len(calls') = Len(calls)
          /\ calls'[Len(calls')].kind = "getById"
          /\ ~calls'[Len(calls')].answered
          /\ orders' = orders /\ selectedOrder' = selectedOrder]_vars

C20_Witness ==
  /\ calls = <<>>
  /\ selectedOrder # <<>>
  /\ selectedOrder[1].items = <<1, MaxQty>>
  /\ selectedOrder[1].total = ServerTotal(<<1, MaxQty>>)
  /\ orders[1] = selectedOrder[1]
  /\ server[1].items = selectedOrder[1].items

\* the step handles a response
Responded == lastOp'.op = "response" /\ Len(requests') = Len(requests) - 1

\* the loads of /login by window.location.href among pending navigations
HardLogins(pending) ==
  Len(SelectSeq(pending, LAMBDA n : n.hard /\ n.to = [path |-> "/login", table |-> <<>>]))

\* C13: every 401 response, from any endpoint, makes the response interceptor
\* remove the stored token and issue exactly one redirect to /login for that
\* response, and the error is still passed on to the caller; after it no
\* token is stored. No other response issues that redirect.
C13_UnauthorizedEvicts ==
  [][Responded =>
       IF lastOp'.status = 401
       THEN /\ token' = "null"
            /\ HardLogins(navigations') = HardLogins(navigations) + 1
            /\ lastOp'.rejected
       ELSE HardLogins(navigations') = HardLogins(navigations)]_vars

C13_Witness ==
  /\ lastOp.op = "response"
  /\ lastOp.status = 401
  /\ lastOp.endpoint = "/products"
  /\ lastOp.bearer \in {"t1", "t2"}
  /\ lastOp.rejected
  /\ token = "null"
  /\ HardLogins(navigations) = 1

\* the step sends a request
Sent == Len(requests') = Len(requests) + 1

\* C14: after a successful login or register the stored token equals the
\* token of the response; every request issued while a token is stored
\* carries that token as its bearer credential, and a request issued while no
\* token is stored carries none.
C14_BearerIsStoredToken ==
  [][/\ (/\ Responded
         /\ lastOp'.endpoint \in {"/auth/login", "/auth/register"}
         /\ lastOp'.status = 200) =>
           (token' = lastOp'.token /\ token' \in {"t1", "t2"})
     /\ Sent =>
          /\ token \in {"t1", "t2"} => requests'[Len(requests')].bearer = token
          /\ token = "null" => requests'[Len(requests')].bearer = "null"]_vars

C14_Witness ==
  /\ Len(requests) = 2
  /\ requests[1].bearer = "null"
  /\ requests[2].bearer = "t2"
  /\ token = "t2"
  /\ lastOp.op = "request"

\* the step runs the guard's effect
Checked == lastOp'.op = "checkAuth" /\ checked' = <<location>> /\ checked # checked'

\* C15: when the guard runs for a dashboard route it redirects to /login if no
\* token is stored and does not redirect if one is stored; on the public
\* routes /, /login, /register and /menu it never redirects to /login, and at
\* /login with a token stored it redirects to /dashboard.
C15_GuardRedirects ==
  [][Checked =>
       LET toLogin == Append(navigations, [to |-> [path |-> "/login", table |-> <<>>],
                                           hard |-> FALSE])
           toDashboard == Append(navigations, [to |-> [path |-> "/dashboard", table |-> <<>>],
                                               hard |-> FALSE])
       IN /\ location.path \in {"/dashboard", "/dashboard/orders/table/"} =>
               navigations' = IF token = "null" THEN toLogin ELSE navigations
          /\ (location.path \in {"/", "/register", "/menu"} /\ location.table = <<>>) =>
               navigations' = navigations
          /\ (location.path = "/login" /\ location.table = <<>>) =>
               navigations' = IF token = "null" THEN navigations ELSE toDashboard]_vars

C15_Witness ==
  /\ lastOp.op = "checkAuth"
  /\ location = [path |-> "/login", table |-> <<>>]
  /\ token = "t1"
  /\ navigations = <<[to |-> [path |-> "/dashboard", table |-> <<>>], hard |-> FALSE]>>

\* the table URLs the client hands to a guest: the targets of the two QR
\* codes and the routes pushed after an order is placed
GuestTableUrls ==
  {generatedTableUrl(GuestTable), tableUrl(GuestTable), TableOrdersRoute(GuestTable)}

\* C16: guest-facing table routes are public: no run of the guard at a table
\* URL handed to a guest, with no token stored, redirects to /login.
C16_GuestRoutesPublic ==
  [][(Checked /\ location \in GuestTableUrls /\ token = "null") =>
       navigations' = navigations]_vars

\* C21: read-modify-write races on the order list are not possible: when two
\* mutations of different orders are started before either response arrives
\* and both succeed, neither update is lost. Handling the successful response
\* of a status update of one order leaves the list entry of every other order
\* as it is.
C21_NoLostUpdate ==
  [][\A i \in 1..Len(calls) :
       (/\ calls[i].kind \in {"handleUpdateStatus", "handleQuickStatusUpdate"}
        /\ calls[i].answered /\ calls[i].ok
        /\ Len(calls') = Len(calls) - 1
        /\ Len(OfKind(calls', calls[i].kind)) = Len(OfKind(calls, calls[i].kind)) - 1
        /\ \A j \in 1..Len(calls) : j # i => calls[j].kind # calls[i].kind) =>
         \A k \in 1..Len(orders) :
           orders[k].id # calls[i].id =>
             \E j \in 1..Len(orders') : orders'[j] = orders[k]]_vars

\* C22: when two list loads of the orders page overlap, the list held after
\* both settle is the result of the response that arrived last, whichever
\* request was sent last: a successful load response always replaces the
\* list, also when the tab has changed since its request was sent.
C22_LastResponseWins ==
  [][\A i \in 1..Len(calls) :
       (/\ calls[i].kind \in {"loadOrders", "loadOrdersByStatus"}
        /\ calls[i].answered /\ calls[i].ok
        /\ calls' = RemoveAt(calls, i)) =>
         orders' = calls[i].body]_vars

C22_Witness ==
  /\ calls = <<>>
  /\ currentStatus = "all"
  /\ Len(orders) = 1
  /\ orders[1].status = "new"
  /\ Len(server) = 2
  /\ issued = 2

\* C28: on the orders page, whenever a status tab other than "all" is selected
\* and no request is outstanding, every order of the displayed list has the
\* selected status.
C28_ListMatchesTab ==
  (currentStatus # "all" /\ calls = <<>>) =>
    \A k \in 1..Len(orders) : orders[k].status = currentStatus

\* C29: the route guard never renders the protected children of a non-public
\* route while no token is stored: in every state where AuthGuard shows its
\* children (isChecking is false) on a non-public path, a token is present.
C29_ChildrenNeedToken ==
  (/\ location.path \in {"/dashboard", "/dashboard/orders/table/"}
   /\ ~isChecking) => token \in {"t1", "t2"}

\* C23: handleApiError returns, in this precedence: the connectivity message
\* for a transport failure; else the server body's error message verbatim;
\* else its details, a string verbatim and an object's values joined into one
\* string; else, for a response without such a body, the fixed message of its
\* status code, 400, 401, 403, 404 and 500 each with its own and any other
\* code "Error: {code}"; else, for an unknown thrown value, its message or the
\* generic fallback.
C23_ErrorMessagePrecedence ==
  lastOp.fn = "handleApiError" =>
    LET e == lastOp.input
        body == e.axios /\ e.response /\ e.data
        fixed == [code \in {400, 401, 403, 404, 500} |->
                    <<"Bad request. Please check your input.",
                      "Unauthorized. Please log in again.",
                      "Forbidden. You do not have permission to access this resource.",
                      "Resource not found.",
                      "Server error. Please try again later.">>[
                        CHOOSE k \in 1..5 : <<400, 401, 403, 404, 500>>[k] = code]]
    IN CASE e.axios /\ e.message = "Network Error" ->
              lastOp.result =
                "Cannot connect to the server. Please check your connection or try again later."
         [] e.axios /\ e.message # "Network Error" /\ ~e.response /\ e.request ->
              lastOp.result = "Network error. Please check your connection."
         [] OTHER ->
              IF body /\ e.error # "" THEN lastOp.result = e.error
              ELSE IF body /\ e.details.kind = "string" /\ e.details.values[1] # ""
              THEN lastOp.result = e.details.values[1]
              ELSE IF body /\ e.details.kind = "object"
              THEN /\ Len(e.details.values) = 0 => lastOp.result = ""
                   /\ Len(e.details.values) = 1 => lastOp.result = e.details.values[1]
                   /\ Len(e.details.values) = 2 =>
                        lastOp.result = e.details.values[1] \o ", " \o e.details.values[2]
              ELSE IF e.axios /\ e.response
              THEN IF e.status \in DOMAIN fixed THEN lastOp.result = fixed[e.status]
                   ELSE lastOp.result = "Error: " \o ToString(e.status)
              ELSE lastOp.result = IF e.isError THEN e.message
                                   ELSE "An unknown error occurred"

C23_Witness ==
  /\ lastOp.fn = "handleApiError"
  /\ lastOp.input.status = 400
  /\ lastOp.input.error = ""
  /\ lastOp.input.details.kind = "object"
  /\ Len(lastOp.input.details.values) = 2
  /\ lastOp.result = "name is required, price is required"

\* C26: getCurrentOrderForTable returns the most recent active order of the
\* table, that is the unpaid order with the latest order date among those the
\* server returned, and null when the table has no unpaid order or the load
\* failed.
C26_MostRecentUnpaid ==
  lastOp.fn = "getCurrentOrderForTable" =>
    LET list == lastOp.input.orders
        unpaid == {k \in 1..Len(list) : list[k].status # "paid"}
    IN IF ~lastOp.input.ok \/ unpaid = {}
       THEN lastOp.result = <<>>
       ELSE /\ lastOp.result # <<>>
            /\ \E k \in unpaid : lastOp.result = <<list[k]>>
            /\ \A k \in unpaid : list[k].orderDate <= lastOp.result[1].orderDate

\* C24: the order status badge lookup returns the label of the status for
\* each of new, preparing, ready, delivered and paid, and the "Unknown" marker
\* only for a value outside the enumeration; the three copies of the lookup
\* (orders page, order-details, table-orders page) agree; no status of an
\* order the page holds, and no status it requests in an update or a status
\* load, reaches the default case.
C24_StatusBadge ==
  /\ \A status \in {"new", "preparing", "ready", "delivered", "paid", "cancelled", "all", ""} :
       /\ getStatusBadge(status).label =
            (IF status \in {"new", "preparing", "ready", "delivered", "paid"}
             THEN <<"New", "Preparing", "Ready", "Delivered", "Paid">>[Rank(status)]
             ELSE "Unknown")
       /\ OrderDetails_getStatusBadge(status) = getStatusBadge(status)
       /\ TableOrders_getStatusBadge(status) = getStatusBadge(status)
  /\ \A o \in HeldOrders : getStatusBadge(o.status).label # "Unknown"
  /\ \A i \in 1..Len(calls) :
       calls[i].kind \in {"handleUpdateStatus", "handleQuickStatusUpdate",
                          "loadOrdersByStatus"} =>
         getStatusBadge(calls[i].arg).label # "Unknown"

C24_Witness ==
  /\ selectedOrder # <<>>
  /\ getStatusBadge(selectedOrder[1].status).label = "Paid"
  /\ \E k \in 1..Len(orders) : getStatusBadge(orders[k].status).label = "Delivered"

\* the router.push("/login") calls among pending navigations
SoftLogins(pending) ==
  Len(SelectSeq(pending, LAMBDA n : ~n.hard /\ n.to = [path |-> "/login", table |-> <<>>]))

\* C25: logout always ends with the token removed, also when the logout API
\* call fails: after useAuth.logout settles, in every outcome of the call, no
\* token is stored, user is null, isLoading is false and logout has issued one
\* navigation to /login.
C25_LogoutAlwaysClears ==
  [][(Responded /\ lastOp'.endpoint = "/auth/logout") =>
       /\ token' = "null"
       /\ SoftLogins(navigations') = SoftLogins(navigations) + 1
       /\ location.path \in {"/dashboard", "/dashboard/orders/table/"} =>
            (user' = "null" /\ ~authLoading')]_vars

C25_Witness ==
  /\ lastOp.op = "response"
  /\ lastOp.endpoint = "/auth/logout"
  /\ lastOp.status = 500
  /\ lastOp.bearer \in {"t1", "t2"}
  /\ location.path = "/dashboard"
  /\ token = "null"
  /\ user = "null"
  /\ ~authLoading
  /\ navigations = <<[to |-> [path |-> "/login", table |-> <<>>], hard |-> FALSE]>>

\* C27: an entry is removed from the local list only when the server delete
\* succeeded: a step that handles the failed response of a delete call leaves
\* the list and the selection unchanged and produces no success message.
C27_DeleteOnlyOnSuccess ==
  [][\A i \in 1..Len(calls) :
       (/\ calls[i].kind = "handleDeleteOrder"
        /\ calls[i].answered
        /\ ~calls[i].ok
        /\ Len(OfKind(calls', "handleDeleteOrder")) < Len(OfKind(calls, "handleDeleteOrder")))
       => /\ orders' = orders
          /\ selectedOrder' = selectedOrder
          /\ "Success" \notin toasts']_vars

====
